---- MODULE Spec2Model ----
(***************************************************************************)
(* Request-processing gateway of the express-learning API: bearer-token    *)
(* authentication, role / ownership authorization, rate-limit tiers and    *)
(* the in-memory response cache, modelled from the TypeScript sources.     *)
(*                                                                         *)
(* Time is the value of Date.now() in milliseconds.  A request is one      *)
(* logical task that runs synchronously between its await points; every    *)
(* action below is one such synchronous block.                             *)
(***************************************************************************)
EXTENDS Integers, Sequences, FiniteSets, TLC

VARIABLES now, users, nextId, cache, hits, reqs, issued, stored, dbVer, doneVer, arrivals, gate, rl, probe

vars == <<now, users, nextId, cache, hits, reqs, issued, stored, dbVer, doneVer, arrivals, gate, rl, probe>>

----------------------------------------------------------------------------
(* Generic helpers *)

\* undefined / null: every optional value of the model is a record
NoValue == [kind |-> "undefined"]

Min(a, b) == IF a < b THEN a ELSE b

RECURSIVE SeqToSet(_)
SeqToSet(s) == IF s = <<>> THEN {} ELSE {Head(s)} \cup SeqToSet(Tail(s))

\* the sequence of entries s without the entry whose key is k
RECURSIVE Without(_, _)
Without(s, k) ==
    IF s = <<>> THEN <<>>
    ELSE IF Head(s).key = k THEN Without(Tail(s), k)
    ELSE <<Head(s)>> \o Without(Tail(s), k)

----------------------------------------------------------------------------
(* Roles, errors and the principal attached to a request *)

Roles == {"USER", "ADMIN", "MODERATOR"}

\* new AppError(message, statusCode)
AppError(message, statusCode) == [message |-> message, statusCode |-> statusCode]

\* the outcome of one middleware: next() or next(err)
Continue == [message |-> "next", statusCode |-> 0]

\* parseInt(string): the leading decimal digits of the string, NaN if none.
\* Strings are sequences of one-character strings.
NaN == -1

Digits == {"0", "1", "2", "3", "4", "5", "6", "7", "8", "9"}

DigitVal(c) ==
    CASE c = "0" -> 0 [] c = "1" -> 1 [] c = "2" -> 2 [] c = "3" -> 3 [] c = "4" -> 4
      [] c = "5" -> 5 [] c = "6" -> 6 [] c = "7" -> 7 [] c = "8" -> 8 [] c = "9" -> 9

RECURSIVE ParseDigits(_, _)
ParseDigits(s, acc) ==
    IF s = <<>> \/ Head(s) \notin Digits THEN acc
    ELSE ParseDigits(Tail(s), acc * 10 + DigitVal(Head(s)))

parseInt(s) ==
    IF s = <<>> \/ Head(s) \notin Digits THEN NaN ELSE ParseDigits(s, 0)

----------------------------------------------------------------------------
(* Authorization gate (middleware/auth.ts) *)

\* requireRole(...roles)(req, res, next); user is req.user or NoValue
requireRoleBroken(roles, user) ==
    IF user = NoValue THEN AppError("Authentication required", 401)
    ELSE Continue

requireRole(roles, user) ==
    IF user = NoValue THEN AppError("Authentication required", 401)
    ELSE IF user.role \notin roles THEN AppError("Insufficient permissions", 403)
    ELSE Continue

requireAdmin(user) == requireRole({"ADMIN"}, user)

requireAdminOrModerator(user) == requireRole({"ADMIN", "MODERATOR"}, user)

\* requireOwnershipOrAdmin((req) => parseInt(req.params.id))
requireOwnershipOrAdminBroken(user, idParam) ==
    IF user = NoValue THEN AppError("Authentication required", 401)
    ELSE LET resourceUserId == parseInt(idParam)
             isOwner == user.id = resourceUserId
             isAdmin == user.role = "ADMIN"
         IN  IF ~isOwner /\ isAdmin THEN AppError("Access denied", 403)
             ELSE Continue

requireOwnershipOrAdmin(user, idParam) ==
    IF user = NoValue THEN AppError("Authentication required", 401)
    ELSE LET resourceUserId == parseInt(idParam)
             isOwner == user.id = resourceUserId
             isAdmin == user.role = "ADMIN"
         IN  IF ~isOwner /\ ~isAdmin THEN AppError("Access denied", 403)
             ELSE Continue

----------------------------------------------------------------------------
(* Token service (services/authService.ts, jsonwebtoken) *)

\* CONFIG.JWT_EXPIRES_IN = '7d', in seconds
JWT_EXPIRES_IN == 604800

\* a string that is not a JSON web token
Garbage == [kind |-> "garbage"]

\* jwt.sign(payload, CONFIG.JWT_SECRET, {expiresIn}): iat and exp are in
\* seconds, iat = floor(Date.now() / 1000)
generateToken(payload, t) ==
    [kind |-> "jwt", userId |-> payload.userId, email |-> payload.email,
     role |-> payload.role, iat |-> t \div 1000,
     exp |-> (t \div 1000) + JWT_EXPIRES_IN, sig |-> "valid"]

\* jwt.verify(token, CONFIG.JWT_SECRET): malformed, bad signature, or
\* floor(Date.now() / 1000) >= exp; every failure is rethrown as one AppError
verifyTokenNoExpiry(token, t) ==
    IF token.kind # "jwt" \/ token.sig # "valid"
    THEN [ok |-> FALSE, error |-> AppError("Invalid or expired token", 401)]
    ELSE [ok |-> TRUE, decoded |-> token]

\* a gateway that honours only the newest token of each principal
verifyTokenNewestOnly(token, t) ==
    IF token.kind # "jwt" \/ token.sig # "valid" \/ (t \div 1000) >= token.exp
            \/ \E x \in issued : x.userId = token.userId /\ x.iat > token.iat
    THEN [ok |-> FALSE, error |-> AppError("Invalid or expired token", 401)]
    ELSE [ok |-> TRUE, decoded |-> token]

verifyToken(token, t) ==
    IF token.kind # "jwt" \/ token.sig # "valid" \/ (t \div 1000) >= token.exp
    THEN [ok |-> FALSE, error |-> AppError("Invalid or expired token", 401)]
    ELSE [ok |-> TRUE, decoded |-> token]

\* the empty string between two spaces, or after the last one, of a header
EmptyPart == [kind |-> "empty"]

\* authHeader && authHeader.split(' ')[1]; the header is the sequence of
\* its space-separated parts, empty when the request has no such header. The
\* result is only tested with !token, which undefined and '' alike satisfy
BearerToken(authHeader) ==
    IF Len(authHeader) < 2 \/ authHeader[2] = EmptyPart THEN NoValue ELSE authHeader[2]

----------------------------------------------------------------------------
(* Persistence (prisma.user); a row is NoValue when the id is unused *)

\* authService.getUserById: findUnique({where: {id, isActive: true}})
getActiveUserByIdIgnoringActive(db, id) ==
    IF id \notin DOMAIN db \/ db[id] = NoValue THEN NoValue
    ELSE [id |-> id, name |-> db[id].name, email |-> db[id].email,
          role |-> db[id].role, isActive |-> db[id].isActive]

getActiveUserById(db, id) ==
    IF id \notin DOMAIN db \/ db[id] = NoValue THEN NoValue
    ELSE IF ~db[id].isActive THEN NoValue
    ELSE [id |-> id, name |-> db[id].name, email |-> db[id].email,
          role |-> db[id].role, isActive |-> db[id].isActive]

\* userService.getAllUsers: findMany()
findMany(db) ==
    {[id |-> i, name |-> db[i].name, email |-> db[i].email, role |-> db[i].role,
      isActive |-> db[i].isActive] : i \in {j \in DOMAIN db : db[j] # NoValue}}

\* userService.getUserById: findUnique({where: {id}})
findUnique(db, id) ==
    IF id \notin DOMAIN db \/ db[id] = NoValue THEN NoValue
    ELSE [id |-> id, name |-> db[id].name, email |-> db[id].email, role |-> db[id].role,
          isActive |-> db[id].isActive]

\* prisma.user.findUnique({where: {email}}): the id of the row, or 0
findByEmail(db, email) ==
    IF \E i \in DOMAIN db : db[i] # NoValue /\ db[i].email = email
    THEN CHOOSE i \in DOMAIN db : db[i] # NoValue /\ db[i].email = email
    ELSE 0

\* a check that excludes no user
emailExistsOfAnyone(db, email, excludeUserId) == findByEmail(db, email) # 0

\* userService.emailExists(email, excludeUserId?); an absent excludeUserId
\* is 0, and 0 and NaN are falsy
emailExists(db, email, excludeUserId) ==
    LET id == findByEmail(db, email)
    IN  IF id = 0 THEN FALSE
        ELSE IF excludeUserId # 0 /\ excludeUserId # NaN /\ id = excludeUserId THEN FALSE
        ELSE TRUE

----------------------------------------------------------------------------
(* Response cache (middleware/performance.ts) *)

\* SimpleCache.maxSize is 1000 in the source; the model runs the same code
\* with a small capacity so that eviction is reachable
maxSize == 2

HasKey(c, k) == \E i \in 1..Len(c) : c[i].key = k

EntryOf(c, k) == c[CHOOSE i \in 1..Len(c) : c[i].key = k]

\* SimpleCache.set: evict the first key of the Map when full, then Map.set
\* (an existing key keeps its position in the Map's insertion order)
CacheSetNoEvict(c, k, data, ttlSeconds, t) ==
    LET e == [key |-> k, data |-> data, timestamp |-> t, ttl |-> ttlSeconds * 1000]
    IN  IF HasKey(c, k)
        THEN [i \in 1..Len(c) |-> IF c[i].key = k THEN e ELSE c[i]]
        ELSE Append(c, e)

CacheSet(c, k, data, ttlSeconds, t) ==
    LET c1 == IF Len(c) >= maxSize THEN Tail(c) ELSE c
        e == [key |-> k, data |-> data, timestamp |-> t, ttl |-> ttlSeconds * 1000]
    IN  IF HasKey(c1, k)
        THEN [i \in 1..Len(c1) |-> IF c1[i].key = k THEN e ELSE c1[i]]
        ELSE Append(c1, e)

\* SimpleCache.get: the data, or null (NoValue) after deleting an expired entry
CacheGetNeverHit(c, k, t) == [cache |-> c, data |-> NoValue]

CacheGet(c, k, t) ==
    IF ~HasKey(c, k) THEN [cache |-> c, data |-> NoValue]
    ELSE IF t - EntryOf(c, k).timestamp > EntryOf(c, k).ttl
         THEN [cache |-> Without(c, k), data |-> NoValue]
         ELSE [cache |-> c, data |-> EntryOf(c, k).data]

\* invalidateCache(pattern): only 'users*' is known, and it clears everything
invalidateCacheNoop(c, pattern) == c

invalidateCache(c, pattern) == IF pattern = "users*" THEN <<>> ELSE c

----------------------------------------------------------------------------
(* Rate limiting (middleware/rateLimiting.ts, express-rate-limit) *)

\* source addresses of the clients
IPs == {"10.0.0.1", "10.0.0.2", "10.0.0.3"}

\* CONFIG.RATE_LIMIT_WINDOW_MS, default 15 minutes
RATE_LIMIT_WINDOW_MS == 900000

\* CONFIG.RATE_LIMIT_MAX_REQUESTS is Number(process.env.RATE_LIMIT_MAX_REQUESTS)
\* || 100; the model runs with a small value set in the environment
RATE_LIMIT_MAX_REQUESTS == 7

\* Math.ceil(a / b) for a >= 0 and b > 0
CeilDiv(a, b) == (a + b - 1) \div b

\* each tier's message carries retryAfter, in minutes, computed when the
\* module is loaded
generalLimiter ==
    [name |-> "general", windowMs |-> RATE_LIMIT_WINDOW_MS, max |-> RATE_LIMIT_MAX_REQUESTS,
     message |-> "Too many requests from this IP, please try again later.",
     retryAfter |-> CeilDiv(RATE_LIMIT_WINDOW_MS, 60 * 1000),
     skipSuccessfulRequests |-> FALSE, skipHealth |-> TRUE]

authLimiterCountsAll ==
    [name |-> "auth", windowMs |-> 15 * 60 * 1000, max |-> 5,
     message |-> "Too many authentication attempts, please try again later.",
     retryAfter |-> 15,
     skipSuccessfulRequests |-> FALSE, skipHealth |-> FALSE]

authLimiter ==
    [name |-> "auth", windowMs |-> 15 * 60 * 1000, max |-> 5,
     message |-> "Too many authentication attempts, please try again later.",
     retryAfter |-> 15,
     skipSuccessfulRequests |-> TRUE, skipHealth |-> FALSE]

userModificationLimiter ==
    [name |-> "userModification", windowMs |-> 60 * 60 * 1000, max |-> 10,
     message |-> "Too many user modification requests, please try again later.",
     retryAfter |-> 60,
     skipSuccessfulRequests |-> FALSE, skipHealth |-> FALSE]

Tiers == {generalLimiter, authLimiter, userModificationLimiter}

TierNames == {t.name : t \in Tiers}

TierOf(n) == CHOOSE t \in Tiers : t.name = n

\* delayMs: (hits) => hits * 100
delayMs(used) == used * 100

\* slowDown({windowMs, delayAfter, delayMs, maxDelayMs}); no skip is given
speedLimiter ==
    [name |-> "speed", windowMs |-> 15 * 60 * 1000, delayAfter |-> 50, maxDelayMs |-> 5000,
     skipHealth |-> FALSE]

\* the stores: one per rejecting tier and the one of speedLimiter
StoreNames == TierNames \cup {speedLimiter.name}

\* MemoryStore.increment(key): create the client, reset it when its window
\* is over (resetTime <= now), then count the hit
StoreIncrementNoReset(h, key, windowMs, t) ==
    LET c0 == IF h[key] = NoValue THEN [totalHits |-> 0, resetTime |-> t + windowMs] ELSE h[key]
    IN  [h EXCEPT ![key] = [c0 EXCEPT !.totalHits = c0.totalHits + 1]]

StoreIncrement(h, key, windowMs, t) ==
    LET c0 == IF h[key] = NoValue THEN [totalHits |-> 0, resetTime |-> t + windowMs] ELSE h[key]
        c1 == IF c0.resetTime <= t THEN [totalHits |-> 0, resetTime |-> t + windowMs] ELSE c0
    IN  [h EXCEPT ![key] = [c1 EXCEPT !.totalHits = c1.totalHits + 1]]

\* MemoryStore.decrement(key)
StoreDecrement(h, key) ==
    IF h[key] # NoValue /\ h[key].totalHits > 0
    THEN [h EXCEPT ![key] = [@ EXCEPT !.totalHits = @ - 1]]
    ELSE h

\* the decision of the rateLimit middleware once the hit is counted
OverLimitOffByOne(tier, client) == client.totalHits > tier.max + 1

OverLimit(tier, client) == client.totalHits > tier.max

----------------------------------------------------------------------------
(* Bounds of the model *)

\* number of requests that can be in flight at once
MaxInflight == 2

Slots == 1..MaxInflight

\* number of rows the user table ever holds (ids are never reused)
MaxUsers == 3

Ids == 1..MaxUsers

Emails == {"a@x.io", "b@x.io", "c@x.io"}

Names == {"Al", "Bo"}

----------------------------------------------------------------------------
(* Initial state: the process has just started, the database is empty *)

Idle == [pc |-> "idle"]

GateIdle == [mw |-> "none", user |-> NoValue, idParam |-> <<>>, roles |-> {}, out |-> Continue]

\* history of the auth tier per client: whether the last answered request on
\* its routes succeeded with no other request of the client in flight
\* beside it, the length of the run of such successes or of failures that
\* ends the history, and the earliest arrival of the failed run
RlIdle == [k \in IPs |-> [lastOk |-> TRUE, oks |-> 0, fails |-> 0, since |-> 0]]

\* the last operation applied to the cache directly, with the cache before
\* it, what it returned, for every key the number of the call that inserted
\* it into the Map (0 when the key is absent), after and before the
\* operation, and the key (in a set) of the last get that was a hit
ProbeIdle == [op |-> "none"]

EmptyHits == [n \in StoreNames |-> [k \in IPs |-> NoValue]]

BaseInit ==
    /\ now = 0
    /\ users = [i \in Ids |-> NoValue]
    /\ nextId = 1
    /\ cache = <<>>
    /\ hits = EmptyHits
    /\ reqs = [s \in Slots |-> Idle]
    /\ issued = {}
    /\ stored = {}
    /\ dbVer = 0
    /\ doneVer = 0
    /\ arrivals = 0
    /\ gate = GateIdle
    /\ probe = ProbeIdle
    /\ rl = RlIdle

----------------------------------------------------------------------------
(* The authorization gates applied to arbitrary request contexts *)

\* req.user as authenticateToken attaches it, or NoValue
GateUsers ==
    {NoValue} \cup {[id |-> i, name |-> "Al", email |-> "a@x.io", role |-> r, isActive |-> TRUE] :
                       i \in {5, 7}, r \in Roles}

\* req.params.id
GateParams == {<<"5">>, <<"7">>, <<"5", "x">>, <<"x">>, <<"7", "5">>}

GateDraw(u, p) ==
    /\ gate' = [mw |-> "none", user |-> u, idParam |-> p, roles |-> {}, out |-> Continue]
    /\ UNCHANGED <<now, users, nextId, cache, hits, reqs, issued, stored, dbVer, doneVer, arrivals, rl, probe>>

ApplyRequireRole(roles) ==
    /\ gate.mw = "none"
    /\ gate' = [gate EXCEPT !.mw = "requireRole", !.roles = roles, !.out = requireRole(roles, gate.user)]
    /\ UNCHANGED <<now, users, nextId, cache, hits, reqs, issued, stored, dbVer, doneVer, arrivals, rl, probe>>

ApplyRequireAdmin ==
    /\ gate.mw = "none"
    /\ gate' = [gate EXCEPT !.mw = "requireAdmin", !.roles = {"ADMIN"}, !.out = requireAdmin(gate.user)]
    /\ UNCHANGED <<now, users, nextId, cache, hits, reqs, issued, stored, dbVer, doneVer, arrivals, rl, probe>>

ApplyRequireAdminOrModerator ==
    /\ gate.mw = "none"
    /\ gate' = [gate EXCEPT !.mw = "requireAdminOrModerator", !.roles = {"ADMIN", "MODERATOR"},
                            !.out = requireAdminOrModerator(gate.user)]
    /\ UNCHANGED <<now, users, nextId, cache, hits, reqs, issued, stored, dbVer, doneVer, arrivals, rl, probe>>

ApplyRequireOwnershipOrAdmin ==
    /\ gate.mw = "none"
    /\ gate' = [gate EXCEPT !.mw = "requireOwnershipOrAdmin",
                            !.out = requireOwnershipOrAdmin(gate.user, gate.idParam)]
    /\ UNCHANGED <<now, users, nextId, cache, hits, reqs, issued, stored, dbVer, doneVer, arrivals, rl, probe>>

InitGates == BaseInit

NextGates ==
    \/ \E u \in GateUsers, p \in GateParams : GateDraw(u, p)
    \/ \E roles \in SUBSET Roles : ApplyRequireRole(roles)
    \/ ApplyRequireAdmin
    \/ ApplyRequireAdminOrModerator
    \/ ApplyRequireOwnershipOrAdmin

SpecGates == InitGates /\ [][NextGates]_vars

RoleGates == {"requireRole", "requireAdmin", "requireAdminOrModerator"}

HasPrincipal(g) == g.user # NoValue

\* C6: a role gate lets the request proceed iff a principal is attached and
\* its role is in the allowed set; an attached principal with another role
\* gets 403, and a request without a principal gets 401, never 403.
C6_RoleGate ==
    gate.mw \in RoleGates =>
        /\ (gate.out = Continue) <=> (HasPrincipal(gate) /\ gate.user.role \in gate.roles)
        /\ (HasPrincipal(gate) /\ gate.user.role \notin gate.roles) => gate.out.statusCode = 403
        /\ ~HasPrincipal(gate) => gate.out.statusCode = 401

C6_Witness ==
    /\ gate.mw = "requireAdminOrModerator"
    /\ HasPrincipal(gate)
    /\ gate.user.role = "USER"
    /\ gate.out.statusCode = 403

\* the roles that may act on a resource they do not own
PrivilegedRoles == {"ADMIN"}

\* the decimal number written by a parameter made of digits only (0 otherwise)
OwnerIdOf(p) ==
    IF p = <<"5">> THEN 5 ELSE IF p = <<"7">> THEN 7 ELSE IF p = <<"7", "5">> THEN 75
    ELSE IF p = <<"5", "x">> THEN 5 ELSE 0

\* C7: with a principal attached, the ownership gate lets the request proceed
\* iff the principal's id is the id in the route parameter or the principal's
\* role is privileged, and answers 403 otherwise; a USER with id 5 may update
\* resource 5 and may not update resource 7.
C7_OwnershipGate ==
    (gate.mw = "requireOwnershipOrAdmin" /\ HasPrincipal(gate)) =>
        /\ (gate.out = Continue) <=>
              (gate.user.id = OwnerIdOf(gate.idParam) \/ gate.user.role \in PrivilegedRoles)
        /\ gate.out # Continue => gate.out.statusCode = 403
        /\ (gate.user.id = 5 /\ gate.user.role = "USER" /\ gate.idParam = <<"5">>) => gate.out = Continue
        /\ (gate.user.id = 5 /\ gate.user.role = "USER" /\ gate.idParam = <<"7">>) => gate.out.statusCode = 403

C7_Witness ==
    /\ gate.mw = "requireOwnershipOrAdmin"
    /\ HasPrincipal(gate)
    /\ gate.user.id = 5
    /\ gate.user.role = "USER"
    /\ gate.idParam = <<"7">>
    /\ gate.out.statusCode = 403

----------------------------------------------------------------------------
(* Routes and their middleware chains (index.ts, routes/*.ts) *)

Routes ==
    {"GET /health", "POST /auth/register", "POST /auth/login", "GET /auth/profile",
     "POST /auth/refresh", "GET /users", "GET /users/:id", "POST /users",
     "PUT /users/:id", "DELETE /users/:id"}

Method(route) ==
    CASE route \in {"GET /health", "GET /auth/profile", "GET /users", "GET /users/:id"} -> "GET"
      [] route \in {"POST /auth/register", "POST /auth/login", "POST /auth/refresh", "POST /users"} -> "POST"
      [] route = "PUT /users/:id" -> "PUT"
      [] route = "DELETE /users/:id" -> "DELETE"

\* the mount point of the route under CONFIG.API_PREFIX
BasePath(route) ==
    CASE route = "GET /health" -> "/api/v1/health"
      [] route = "POST /auth/register" -> "/api/v1/auth/register"
      [] route = "POST /auth/login" -> "/api/v1/auth/login"
      [] route = "GET /auth/profile" -> "/api/v1/auth/profile"
      [] route = "POST /auth/refresh" -> "/api/v1/auth/refresh"
      [] OTHER -> "/api/v1/users"

HasIdParam(route) == route \in {"GET /users/:id", "PUT /users/:id", "DELETE /users/:id"}

HealthWord == <<"h", "e", "a", "l", "t", "h">>

\* req.path.includes('/health'): the path is the mount point followed by
\* '/' and the id parameter
PathIncludesHealth(r) == BasePath(r.route) = "/api/v1/health" \/ r.idParam = HealthWord

\* the middleware of each route, in the order in which router.<method> lists them
RouteChainCacheFirst(route) ==
    CASE route = "GET /health" -> <<"cacheMiddleware30", "getHealth">>
      [] route = "POST /auth/register" -> <<"authLimiter", "register">>
      [] route = "POST /auth/login" -> <<"authLimiter", "login">>
      [] route = "GET /auth/profile" -> <<"authenticateToken", "getProfile">>
      [] route = "POST /auth/refresh" -> <<"authenticateToken", "refreshToken">>
      [] route = "GET /users" -> <<"cacheMiddleware120", "authenticateToken", "getAllUsers">>
      [] route = "GET /users/:id" ->
            <<"cacheMiddleware300", "authenticateToken", "validateParams", "getUserById">>
      [] route = "POST /users" ->
            <<"authenticateToken", "requireAdminOrModerator", "userModificationLimiter",
              "validateCreate", "createUser">>
      [] route = "PUT /users/:id" ->
            <<"authenticateToken", "requireOwnershipOrAdmin", "userModificationLimiter",
              "validateParams", "validateUpdate", "updateUser">>
      [] route = "DELETE /users/:id" ->
            <<"authenticateToken", "requireAdminOrModerator", "userModificationLimiter",
              "validateParams", "deleteUser">>

RouteChain(route) ==
    CASE route = "GET /health" -> <<"cacheMiddleware30", "getHealth">>
      [] route = "POST /auth/register" -> <<"authLimiter", "register">>
      [] route = "POST /auth/login" -> <<"authLimiter", "login">>
      [] route = "GET /auth/profile" -> <<"authenticateToken", "getProfile">>
      [] route = "POST /auth/refresh" -> <<"authenticateToken", "refreshToken">>
      [] route = "GET /users" -> <<"authenticateToken", "cacheMiddleware120", "getAllUsers">>
      [] route = "GET /users/:id" ->
            <<"authenticateToken", "validateParams", "cacheMiddleware300", "getUserById">>
      [] route = "POST /users" ->
            <<"authenticateToken", "requireAdminOrModerator", "userModificationLimiter",
              "validateCreate", "createUser">>
      [] route = "PUT /users/:id" ->
            <<"authenticateToken", "requireOwnershipOrAdmin", "userModificationLimiter",
              "validateParams", "validateUpdate", "updateUser">>
      [] route = "DELETE /users/:id" ->
            <<"authenticateToken", "requireAdminOrModerator", "userModificationLimiter",
              "validateParams", "deleteUser">>

\* setupSecurity applies the general limiter and then the speed limiter to
\* every request before the router
AppChain(route) == <<"generalLimiter", "speedLimiter">> \o RouteChain(route)

Handlers ==
    {"getHealth", "register", "login", "getProfile", "refreshToken", "getAllUsers",
     "getUserById", "createUser", "updateUser", "deleteUser"}

\* cacheMiddleware's default key: method, originalUrl and JSON.stringify(req.query)
CacheKey(r) == <<Method(r.route), BasePath(r.route), r.idParam, r.query>>

\* Joi: userSchemas.params, id is a positive integer (strings are converted)
ParamsValid(p) == p # <<>> /\ (\A i \in 1..Len(p) : p[i] \in Digits) /\ ParseDigits(p, 0) > 0

\* Joi: userSchemas.create, name and email are required ("" is a missing field)
CreateValid(b) == b.name # "" /\ b.email # ""

\* Joi: userSchemas.update, at least one of name and email
UpdateValid(b) == b.name # "" \/ b.email # ""

\* Joi: authSchemas.login and authSchemas.register
LoginValid(b) == b.email # "" /\ b.password # ""

RegisterValid(b) == b.name # "" /\ b.email # "" /\ b.password # ""

----------------------------------------------------------------------------
(* One request; the fields after res are history kept for the properties *)

NewReq(route, idParam, ip, authHeader, ifNoneMatch, body, t, ver) ==
    [pc |-> "run", route |-> route, idParam |-> idParam, query |-> "{}", ip |-> ip,
     authHeader |-> authHeader, ifNoneMatch |-> ifNoneMatch, body |-> body, next |-> 1,
     decoded |-> NoValue, user |-> NoValue, intercept |-> NoValue, onFinish |-> {},
     tmp |-> NoValue, res |-> NoValue,
     t0 |-> t, ver0 |-> ver, rejectedBy |-> "none", counted |-> {},
     handler |-> FALSE, dbHandler |-> FALSE, cacheRead |-> FALSE, cacheWrite |-> FALSE,
     invalidated |-> FALSE, seen |-> NoValue, lookupAt |-> 0, goneAtStart |-> FALSE,
     goneAtLookup |-> FALSE, looked |-> FALSE, rlSeen |-> [n \in TierNames |-> NoValue], log0 |-> NoValue,
     aloneAtStart |-> TRUE, solo |-> TRUE, slow |-> NoValue, wakeAt |-> 0, closed |-> FALSE]

\* the interceptor of cacheMiddleware: only successful responses are cached
CacheableAnyStatus(status) == TRUE

Cacheable(status) == status >= 200 /\ status < 300

\* etagMiddleware without the ETag header
ETagAbsent(body) == NoValue

\* etagMiddleware: the validator is a function of the serialized body
ETag(body) == [etag |-> body]

\* res.status(status).json(body): the interceptor installed by cacheMiddleware
\* stores 2xx bodies, etagMiddleware answers 304 without a body to a GET whose
\* If-None-Match equals the validator of a 200 body, and the 'finish'
\* listener of a limiter that skips successful requests takes the hit back
\* when the status is below 400
Respond(ctx, t, status, body, xCache, by) ==
    LET r == ctx.req
        tagged == Method(r.route) = "GET" /\ status = 200
        notModified == tagged /\ r.ifNoneMatch = ETag(body)
        caching == r.intercept # NoValue /\ Cacheable(status)
        evictedKey == IF caching /\ Len(ctx.cache) >= maxSize THEN Head(ctx.cache).key ELSE <<>>
        cache1 == IF caching THEN CacheSet(ctx.cache, r.intercept.key, body, r.intercept.ttl, t)
                  ELSE ctx.cache
        stored1 == IF caching
                   THEN {[x EXCEPT !.evicted = @ \/ x.key = evictedKey] :
                            x \in {y \in ctx.stored : y.key # r.intercept.key}}
                        \cup {[key |-> r.intercept.key, data |-> body, at |-> t, evicted |-> FALSE]}
                   ELSE ctx.stored
        hits1 == [n \in StoreNames |->
                     IF n \in r.onFinish /\ status < 400 THEN StoreDecrement(ctx.hits[n], r.ip)
                     ELSE ctx.hits[n]]
        log == ctx.rl[r.ip]
        rl1 == IF "auth" \notin r.counted THEN ctx.rl
               ELSE IF status < 400
               THEN [ctx.rl EXCEPT ![r.ip] = [lastOk |-> r.solo, oks |-> IF r.solo THEN log.oks + 1 ELSE 0,
                                              fails |-> 0, since |-> 0]]
               ELSE IF ~r.solo
               THEN [ctx.rl EXCEPT ![r.ip] = [lastOk |-> FALSE, oks |-> 0, fails |-> 0, since |-> 0]]
               ELSE [ctx.rl EXCEPT ![r.ip] = [lastOk |-> FALSE, oks |-> 0, fails |-> log.fails + 1,
                                              since |-> IF log.fails = 0 THEN r.t0 ELSE Min(log.since, r.t0)]]
    IN  [ctx EXCEPT !.cache = cache1, !.stored = stored1, !.hits = hits1, !.rl = rl1,
                    !.req = [r EXCEPT !.pc = "done",
                                      !.res = [status |-> IF notModified THEN 304 ELSE status,
                                               jsonStatus |-> status,
                                               body |-> IF notModified THEN NoValue ELSE body,
                                               etag |-> IF tagged THEN ETag(body) ELSE NoValue,
                                               xCache |-> IF xCache = "HIT" THEN "HIT"
                                                          ELSE IF r.intercept # NoValue THEN "MISS"
                                                          ELSE "none"],
                                      !.cacheWrite = @ \/ caching,
                                      !.rejectedBy = by]]

\* errorHandler: res.status(err.statusCode).json({success: false, message, timestamp})
ErrorBody(err, t) == [message |-> err.message, data |-> NoValue, timestamp |-> t]

\* an error response that also empties the cache
FailInvalidating(ctx, t, err, by) ==
    Respond([ctx EXCEPT !.cache = <<>>], t, err.statusCode, ErrorBody(err, t), "none", by)

Fail(ctx, t, err, by) == Respond(ctx, t, err.statusCode, ErrorBody(err, t), "none", by)

\* the rateLimit middleware of one tier: count the hit for req.ip, register the
\* 'finish' listener, answer 429 with the tier's message when over the limit
\* no limiter is given a keyGenerator: the key of a client in the store of a
\* tier is req.ip, whether or not req.user is set
keyGenerator(r) == [address |-> r.ip]

RateLimitNoReject(ctx, tier, t) ==
    LET r == ctx.req
    IN  IF tier.skipHealth /\ PathIncludesHealth(r) THEN ctx
        ELSE LET h1 == StoreIncrement(ctx.hits[tier.name], r.ip, tier.windowMs, t)
             IN  [ctx EXCEPT !.hits[tier.name] = h1,
                             !.req.counted = @ \cup {tier.name},
                             !.req.rlSeen[tier.name] =
                                 [before |-> ctx.hits[tier.name][r.ip], at |-> t, after |-> h1[r.ip],
                                          key |-> keyGenerator(r)],
                             !.req.onFinish = IF tier.skipSuccessfulRequests
                                              THEN @ \cup {tier.name} ELSE @]

RateLimit(ctx, tier, t) ==
    LET r == ctx.req
    IN  IF tier.skipHealth /\ PathIncludesHealth(r) THEN ctx
        ELSE LET h1 == StoreIncrement(ctx.hits[tier.name], r.ip, tier.windowMs, t)
                 ctx1 == [ctx EXCEPT !.hits[tier.name] = h1,
                                     !.req.counted = @ \cup {tier.name},
                                     !.req.rlSeen[tier.name] =
                                         [before |-> ctx.hits[tier.name][r.ip], at |-> t, after |-> h1[r.ip],
                                          key |-> keyGenerator(r)],
                                     !.req.onFinish = IF tier.skipSuccessfulRequests
                                                      THEN @ \cup {tier.name} ELSE @]
             IN  IF OverLimit(tier, h1[r.ip])
                 THEN Respond(ctx1, t, 429, [message |-> tier.message, data |-> NoValue, timestamp |-> 0,
                                              retryAfter |-> tier.retryAfter],
                              "none", tier.name)
                 ELSE ctx1

\* optionalAuth's treatment of a missing token, in place of authenticateToken's
AuthenticateTokenPassesWithout(ctx, t) ==
    LET token == BearerToken(ctx.req.authHeader)
    IN  IF token = NoValue THEN ctx
        ELSE LET v == verifyToken(token, t)
             IN  IF ~v.ok THEN Fail(ctx, t, v.error, "authn")
                 ELSE [ctx EXCEPT !.req.decoded = v.decoded, !.req.pc = "authLookup"]

\* the slowDown middleware: count the hit for req.ip; past delayAfter hits
\* in the window, call next() only after min(delayMs(hits), maxDelayMs)
SlowDown(ctx, tier, t) ==
    LET r == ctx.req
        h1 == StoreIncrement(ctx.hits[tier.name], r.ip, tier.windowMs, t)
        used == h1[r.ip].totalHits
        delay == IF used > tier.delayAfter THEN Min(delayMs(used), tier.maxDelayMs) ELSE 0
        ctx1 == [ctx EXCEPT !.hits[tier.name] = h1,
                            !.req.slow = [before |-> ctx.hits[tier.name][r.ip], at |-> t,
                                          after |-> h1[r.ip], delay |-> delay]]
    IN  IF delay = 0 THEN ctx1
        ELSE [ctx1 EXCEPT !.req.pc = "delayed", !.req.wakeAt = t + delay]

\* authenticateToken up to its await: extract the token and verify it
AuthenticateToken(ctx, t) ==
    LET token == BearerToken(ctx.req.authHeader)
    IN  IF token = NoValue THEN Fail(ctx, t, AppError("Access token is required", 401), "authn")
        ELSE LET v == verifyToken(token, t)
             IN  IF ~v.ok THEN Fail(ctx, t, v.error, "authn")
                 ELSE [ctx EXCEPT !.req.decoded = v.decoded, !.req.pc = "authLookup"]

\* the stored record of a key, for the history of a lookup
StoredFor(st, k) == IF \E x \in st : x.key = k THEN CHOOSE x \in st : x.key = k ELSE NoValue

\* cacheMiddleware(ttlSeconds): GET only; answer from the cache on a hit,
\* otherwise wrap res.json and go on
CacheMiddleware(ctx, ttlSeconds, t) ==
    LET r == ctx.req
        key == CacheKey(r)
        got == CacheGet(ctx.cache, key, t)
        ctx1 == [ctx EXCEPT !.cache = got.cache, !.req.cacheRead = TRUE,
                            !.req.seen = StoredFor(ctx.stored, key), !.req.lookupAt = t]
    IN  IF Method(r.route) # "GET" THEN ctx
        ELSE IF got.data # NoValue THEN Respond(ctx1, t, 200, got.data, "HIT", "none")
        ELSE [ctx1 EXCEPT !.req.intercept = [key |-> key, ttl |-> ttlSeconds]]

\* validate(schema, property)
Validate(ctx, ok, t) == IF ok THEN ctx ELSE Fail(ctx, t, AppError("Validation failed", 400), "none")

Gate(ctx, out, t) == IF out = Continue THEN ctx ELSE Fail(ctx, t, out, "authz")

\* the synchronous start of each handler, up to its first await
StartHandler(ctx, name, t) ==
    LET r == ctx.req
        c == [ctx EXCEPT !.req.handler = TRUE]
    IN  CASE name = "getHealth" ->
                Respond(c, t, 200, [message |-> "Service is healthy", data |-> [status |-> "OK"], timestamp |-> t],
                        "none", "none")
          [] name = "getProfile" ->
                IF r.user = NoValue
                THEN Respond(c, t, 401, [message |-> "User not authenticated", data |-> NoValue, timestamp |-> t],
                             "none", "none")
                ELSE Respond(c, t, 200, [message |-> "Profile retrieved successfully", data |-> r.user, timestamp |-> t],
                             "none", "none")
          [] name = "refreshToken" ->
                IF r.user = NoValue
                THEN Respond(c, t, 401, [message |-> "User not authenticated", data |-> NoValue, timestamp |-> t],
                             "none", "none")
                ELSE LET token == generateToken([userId |-> r.user.id, email |-> r.user.email, role |-> r.user.role], t)
                     IN  Respond([c EXCEPT !.issued = @ \cup {token}], t, 200,
                                 [message |-> "Token refreshed successfully", data |-> token, timestamp |-> t],
                                 "none", "none")
          [] name = "login" ->
                IF ~LoginValid(r.body)
                THEN Respond(c, t, 400, [message |-> "Validation error", data |-> NoValue, timestamp |-> t], "none", "none")
                ELSE [c EXCEPT !.req.pc = "login:find"]
          [] name = "register" ->
                IF ~RegisterValid(r.body)
                THEN Respond(c, t, 400, [message |-> "Validation error", data |-> NoValue, timestamp |-> t], "none", "none")
                ELSE [c EXCEPT !.req.pc = "register:find"]
          [] name = "getAllUsers" -> [c EXCEPT !.req.pc = "getAllUsers:read"]
          [] name = "getUserById" ->
                IF parseInt(r.idParam) = NaN THEN Fail(c, t, AppError("Invalid user ID", 400), "none")
                ELSE [c EXCEPT !.req.pc = "getUserById:read"]
          [] name = "createUser" -> [c EXCEPT !.req.pc = "createUser:check"]
          [] name = "updateUser" ->
                IF parseInt(r.idParam) = NaN THEN Fail(c, t, AppError("Invalid user ID", 400), "none")
                ELSE IF r.body.email # "" THEN [c EXCEPT !.req.pc = "updateUser:check"]
                ELSE [c EXCEPT !.req.pc = "updateUser:find"]
          [] name = "deleteUser" ->
                IF parseInt(r.idParam) = NaN THEN Fail(c, t, AppError("Invalid user ID", 400), "none")
                ELSE [c EXCEPT !.req.pc = "deleteUser:find"]

\* one middleware of the chain
Stage(ctx, name, t) ==
    CASE name = "generalLimiter" -> RateLimit(ctx, generalLimiter, t)
      [] name = "speedLimiter" -> SlowDown(ctx, speedLimiter, t)
      [] name = "authLimiter" -> RateLimit(ctx, authLimiter, t)
      [] name = "userModificationLimiter" -> RateLimit(ctx, userModificationLimiter, t)
      [] name = "authenticateToken" -> AuthenticateToken(ctx, t)
      [] name = "requireAdminOrModerator" -> Gate(ctx, requireAdminOrModerator(ctx.req.user), t)
      [] name = "requireOwnershipOrAdmin" ->
            Gate(ctx, requireOwnershipOrAdmin(ctx.req.user, ctx.req.idParam), t)
      [] name = "validateParams" -> Validate(ctx, ParamsValid(ctx.req.idParam), t)
      [] name = "validateCreate" -> Validate(ctx, CreateValid(ctx.req.body), t)
      [] name = "validateUpdate" -> Validate(ctx, UpdateValid(ctx.req.body), t)
      [] name = "cacheMiddleware30" -> CacheMiddleware(ctx, 30, t)
      [] name = "cacheMiddleware120" -> CacheMiddleware(ctx, 120, t)
      [] name = "cacheMiddleware300" -> CacheMiddleware(ctx, 300, t)
      [] OTHER -> StartHandler(ctx, name, t)

\* run the chain from the request's next middleware until the request
\* suspends at an await or its response is sent
RECURSIVE RunFrom(_, _)
RunFrom(ctx, t) ==
    LET chain == AppChain(ctx.req.route)
        c1 == Stage(ctx, chain[ctx.req.next], t)
    IN  IF c1.req.pc = "run" THEN RunFrom([c1 EXCEPT !.req.next = @ + 1], t) ELSE c1

----------------------------------------------------------------------------
(* The steps of a request: each action is one synchronous block of the     *)
(* request's task, from one await (or the arrival) to the next             *)

Ctx(s) ==
    [cache |-> cache, hits |-> hits, issued |-> issued, stored |-> stored, rl |-> rl, req |-> reqs[s]]

Commit(s, c) ==
    /\ cache' = c.cache
    /\ hits' = c.hits
    /\ issued' = c.issued
    /\ stored' = c.stored
    /\ rl' = c.rl
    /\ reqs' = [reqs EXCEPT ![s] = c.req]

\* as Commit, for an arriving request; unless the history of answered
\* requests is kept, the slots of answered requests are emptied, and the
\* requests in flight of the same client are no longer on their own
CommitArrival(s, c, keep) ==
    /\ cache' = c.cache
    /\ hits' = c.hits
    /\ issued' = c.issued
    /\ stored' = c.stored
    /\ rl' = c.rl
    /\ reqs' = [x \in Slots |-> IF x = s THEN c.req
                                ELSE IF reqs[x].pc = "idle" THEN Idle
                                ELSE IF reqs[x].pc = "done" THEN (IF keep THEN reqs[x] ELSE Idle)
                                ELSE IF reqs[x].ip = c.req.ip THEN [reqs[x] EXCEPT !.solo = FALSE]
                                ELSE reqs[x]]

Free(s) == reqs[s].pc \in {"idle", "done"}

Max(a, b) == IF a > b THEN a ELSE b

\* history: the row a presented token names is deleted or inactive
PrincipalGone(db, authHeader) ==
    LET token == BearerToken(authHeader)
    IN  /\ token # NoValue
        /\ token.kind = "jwt"
        /\ (db[token.userId] = NoValue \/ ~db[token.userId].isActive)

\* a request arrives and runs until its first await; it takes the first
\* slot that holds no request in flight. limit bounds the requests of a
\* behaviour, inflight those in flight at once
Arrive(s, route, idParam, ip, authHeader, ifNoneMatch, body, limit, inflight, keep) ==
    /\ Free(s)
    /\ \A s2 \in Slots : s2 < s => ~Free(s2)
    /\ arrivals < limit
    /\ Cardinality({x \in Slots : ~Free(x)}) < inflight
    /\ LET r0 == [NewReq(route, idParam, ip, authHeader, ifNoneMatch, body, now, doneVer)
                      EXCEPT !.goneAtStart = PrincipalGone(users, authHeader),
                             !.log0 = rl[ip],
                             !.aloneAtStart = \A x \in Slots : Free(x) \/ reqs[x].ip # ip,
                             !.solo = \A x \in Slots : Free(x) \/ reqs[x].ip # ip]
       IN  CommitArrival(s, RunFrom([Ctx(s) EXCEPT !.req = r0], now), keep)
    /\ arrivals' = arrivals + 1
    /\ UNCHANGED <<now, users, nextId, dbVer, doneVer, gate, probe>>

\* authenticateToken attaching the role claimed by the token
AuthLookupTokenRole(s) ==
    /\ reqs[s].pc = "authLookup"
    /\ LET id == reqs[s].decoded.userId
           user == getActiveUserById(users, id)
           gone == users[id] = NoValue \/ ~users[id].isActive
           c == [Ctx(s) EXCEPT !.req.goneAtLookup = gone, !.req.looked = TRUE]
       IN  IF user = NoValue
           THEN Commit(s, Fail(c, now, AppError("User not found or inactive", 401), "authn"))
           ELSE Commit(s, RunFrom([c EXCEPT !.req.user = [user EXCEPT !.role = reqs[s].decoded.role],
                                            !.req.pc = "run", !.req.next = @ + 1], now))
    /\ UNCHANGED <<now, users, nextId, dbVer, doneVer, arrivals, gate, probe>>

\* authenticateToken after `await authService.getUserById(decoded.userId)`
AuthLookup(s) ==
    /\ reqs[s].pc = "authLookup"
    /\ LET id == reqs[s].decoded.userId
           user == getActiveUserById(users, id)
           gone == users[id] = NoValue \/ ~users[id].isActive
           c == [Ctx(s) EXCEPT !.req.goneAtLookup = gone, !.req.looked = TRUE]
       IN  IF user = NoValue
           THEN Commit(s, Fail(c, now, AppError("User not found or inactive", 401), "authn"))
           ELSE Commit(s, RunFrom([c EXCEPT !.req.user = user, !.req.pc = "run", !.req.next = @ + 1], now))
    /\ UNCHANGED <<now, users, nextId, dbVer, doneVer, arrivals, gate, probe>>

\* the timer of speedLimiter fires, at wakeAt or later, and calls next()
SlowDownResume(s) ==
    /\ reqs[s].pc = "delayed"
    /\ now' = Max(now, reqs[s].wakeAt)
    /\ Commit(s, RunFrom([Ctx(s) EXCEPT !.req.pc = "run", !.req.next = @ + 1], now'))
    /\ UNCHANGED <<users, nextId, dbVer, doneVer, arrivals, gate, probe>>

\* userController.getAllUsers: the query of userService.getAllUsers runs
GetAllRead(s) ==
    /\ reqs[s].pc = "getAllUsers:read"
    /\ reqs' = [reqs EXCEPT ![s].pc = "getAllUsers:send", ![s].dbHandler = TRUE,
                            ![s].tmp = [rows |-> findMany(users), ver |-> dbVer]]
    /\ UNCHANGED <<now, users, nextId, cache, hits, issued, stored, dbVer, doneVer, arrivals, gate, rl, probe>>

\* userController.getAllUsers after the await: res.status(200).json(response)
GetAllSend(s) ==
    /\ reqs[s].pc = "getAllUsers:send"
    /\ Commit(s, Respond(Ctx(s), now, 200,
                         [message |-> "Users retrieved successfully", data |-> reqs[s].tmp, timestamp |-> now],
                         "none", "none"))
    /\ UNCHANGED <<now, users, nextId, dbVer, doneVer, arrivals, gate, probe>>

\* userController.getUserById: the query of userService.getUserById runs
GetByIdRead(s) ==
    /\ reqs[s].pc = "getUserById:read"
    /\ reqs' = [reqs EXCEPT ![s].pc = "getUserById:send", ![s].dbHandler = TRUE,
                            ![s].tmp = [rows |-> findUnique(users, parseInt(reqs[s].idParam)), ver |-> dbVer]]
    /\ UNCHANGED <<now, users, nextId, cache, hits, issued, stored, dbVer, doneVer, arrivals, gate, rl, probe>>

\* userController.getUserById after the await: 404 or 200
GetByIdSend(s) ==
    /\ reqs[s].pc = "getUserById:send"
    /\ IF reqs[s].tmp.rows = NoValue
       THEN Commit(s, Fail(Ctx(s), now, AppError("User not found", 404), "none"))
       ELSE Commit(s, Respond(Ctx(s), now, 200,
                              [message |-> "User retrieved successfully", data |-> reqs[s].tmp, timestamp |-> now],
                              "none", "none"))
    /\ UNCHANGED <<now, users, nextId, dbVer, doneVer, arrivals, gate, probe>>

\* the response of a successful mutation: invalidateCache('users*'), then
\* res.status(status).json(response)
SendMutation(s, status, message) ==
    LET c == [Ctx(s) EXCEPT !.cache = invalidateCache(cache, "users*"),
                            !.stored = {},
                            !.req.invalidated = TRUE]
    IN  /\ Commit(s, Respond(c, now, status, [message |-> message, data |-> reqs[s].tmp, timestamp |-> now],
                             "none", "none"))
        /\ doneVer' = Max(doneVer, reqs[s].tmp.ver)
        /\ UNCHANGED <<now, users, nextId, dbVer, arrivals, gate, probe>>

\* userController.createUser: userService.emailExists(email) and the check of its result
CreateCheck(s) ==
    /\ reqs[s].pc = "createUser:check"
    /\ LET c == [Ctx(s) EXCEPT !.req.dbHandler = TRUE]
       IN  IF emailExists(users, reqs[s].body.email, 0)
           THEN Commit(s, Fail(c, now, AppError("User with this email already exists", 409), "none"))
           ELSE Commit(s, [c EXCEPT !.req.pc = "createUser:write"])
    /\ UNCHANGED <<now, users, nextId, dbVer, doneVer, arrivals, gate, probe>>

\* userService.createUser: prisma.user.create; the unique index on email
\* raises P2002, which the controller turns into 409
CreateWrite(s) ==
    /\ reqs[s].pc = "createUser:write"
    /\ IF findByEmail(users, reqs[s].body.email) # 0
       THEN /\ Commit(s, Fail(Ctx(s), now, AppError("User with this email already exists", 409), "none"))
            /\ UNCHANGED <<users, nextId, dbVer>>
       ELSE /\ nextId <= MaxUsers
            /\ users' = [users EXCEPT ![nextId] = [name |-> reqs[s].body.name, email |-> reqs[s].body.email,
                                                   role |-> "USER", isActive |-> TRUE, password |-> ""]]
            /\ nextId' = nextId + 1
            /\ dbVer' = dbVer + 1
            /\ reqs' = [reqs EXCEPT ![s].pc = "createUser:send",
                                    ![s].tmp = [rows |-> [id |-> nextId], ver |-> dbVer + 1]]
            /\ UNCHANGED <<cache, hits, issued, stored, rl>>
    /\ UNCHANGED <<now, doneVer, arrivals, gate, probe>>

CreateSend(s) ==
    /\ reqs[s].pc = "createUser:send"
    /\ SendMutation(s, 201, "User created successfully")

\* userController.updateUser: userService.emailExists(email, id) and the check of its result
UpdateCheck(s) ==
    /\ reqs[s].pc = "updateUser:check"
    /\ LET c == [Ctx(s) EXCEPT !.req.dbHandler = TRUE]
       IN  IF emailExists(users, reqs[s].body.email, parseInt(reqs[s].idParam))
           THEN Commit(s, Fail(c, now, AppError("User with this email already exists", 409), "none"))
           ELSE Commit(s, [c EXCEPT !.req.pc = "updateUser:find"])
    /\ UNCHANGED <<now, users, nextId, dbVer, doneVer, arrivals, gate, probe>>

\* userService.updateUser: the existence check; null becomes 404
UpdateFind(s) ==
    /\ reqs[s].pc = "updateUser:find"
    /\ LET c == [Ctx(s) EXCEPT !.req.dbHandler = TRUE]
       IN  IF findUnique(users, parseInt(reqs[s].idParam)) = NoValue
           THEN Commit(s, Fail(c, now, AppError("User not found", 404), "none"))
           ELSE Commit(s, [c EXCEPT !.req.pc = "updateUser:write"])
    /\ UNCHANGED <<now, users, nextId, dbVer, doneVer, arrivals, gate, probe>>

\* userService.updateUser: prisma.user.update; a row deleted meanwhile raises
\* P2025 (500 from the error handler), a taken email raises P2002 (409)
UpdateWrite(s) ==
    /\ reqs[s].pc = "updateUser:write"
    /\ LET id == parseInt(reqs[s].idParam)
           b == reqs[s].body
           owner == IF b.email = "" THEN 0 ELSE findByEmail(users, b.email)
       IN  IF users[id] = NoValue
           THEN /\ Commit(s, Fail(Ctx(s), now, AppError("Record to update not found.", 500), "none"))
                /\ UNCHANGED <<users, dbVer>>
           ELSE IF owner # 0 /\ owner # id
           THEN /\ Commit(s, Fail(Ctx(s), now, AppError("User with this email already exists", 409), "none"))
                /\ UNCHANGED <<users, dbVer>>
           ELSE /\ users' = [users EXCEPT ![id] = [@ EXCEPT !.name = IF b.name = "" THEN @ ELSE b.name,
                                                            !.email = IF b.email = "" THEN @ ELSE b.email]]
                /\ dbVer' = dbVer + 1
                /\ reqs' = [reqs EXCEPT ![s].pc = "updateUser:send",
                                        ![s].tmp = [rows |-> [id |-> id], ver |-> dbVer + 1]]
                /\ UNCHANGED <<cache, hits, issued, stored, rl>>
    /\ UNCHANGED <<now, nextId, doneVer, arrivals, gate, probe>>

UpdateSend(s) ==
    /\ reqs[s].pc = "updateUser:send"
    /\ SendMutation(s, 200, "User updated successfully")

\* userService.deleteUser: the existence check; null becomes 404
DeleteFind(s) ==
    /\ reqs[s].pc = "deleteUser:find"
    /\ LET c == [Ctx(s) EXCEPT !.req.dbHandler = TRUE]
       IN  IF findUnique(users, parseInt(reqs[s].idParam)) = NoValue
           THEN Commit(s, Fail(c, now, AppError("User not found", 404), "none"))
           ELSE Commit(s, [c EXCEPT !.req.pc = "deleteUser:write"])
    /\ UNCHANGED <<now, users, nextId, dbVer, doneVer, arrivals, gate, probe>>

\* userService.deleteUser: prisma.user.delete; a row deleted meanwhile raises P2025
DeleteWrite(s) ==
    /\ reqs[s].pc = "deleteUser:write"
    /\ LET id == parseInt(reqs[s].idParam)
       IN  IF users[id] = NoValue
           THEN /\ Commit(s, Fail(Ctx(s), now, AppError("Record to delete does not exist.", 500), "none"))
                /\ UNCHANGED <<users, dbVer>>
           ELSE /\ users' = [users EXCEPT ![id] = NoValue]
                /\ dbVer' = dbVer + 1
                /\ reqs' = [reqs EXCEPT ![s].pc = "deleteUser:send",
                                        ![s].tmp = [rows |-> [id |-> id], ver |-> dbVer + 1]]
                /\ UNCHANGED <<cache, hits, issued, stored, rl>>
    /\ UNCHANGED <<now, nextId, doneVer, arrivals, gate, probe>>

DeleteSend(s) ==
    /\ reqs[s].pc = "deleteUser:send"
    /\ SendMutation(s, 200, "User deleted successfully")

\* authService.login without the check of isActive
LoginFindIgnoringActive(s) ==
    /\ reqs[s].pc = "login:find"
    /\ LET id == findByEmail(users, reqs[s].body.email)
           c == [Ctx(s) EXCEPT !.req.dbHandler = TRUE]
       IN  IF id = 0 \/ (id # 0 /\ users[id].password = "")
           THEN Commit(s, Fail(c, now, AppError("Invalid credentials", 401), "none"))
           ELSE Commit(s, [c EXCEPT !.req.pc = "login:compare",
                                    !.req.tmp = [id |-> id, email |-> users[id].email, role |-> users[id].role,
                                                 password |-> users[id].password,
                                                 isActive |-> users[id].isActive]])
    /\ UNCHANGED <<now, users, nextId, dbVer, doneVer, arrivals, gate, probe>>

\* authService.login: findUnique by email and the checks on the row
LoginFind(s) ==
    /\ reqs[s].pc = "login:find"
    /\ LET id == findByEmail(users, reqs[s].body.email)
           c == [Ctx(s) EXCEPT !.req.dbHandler = TRUE]
       IN  IF id = 0 \/ (id # 0 /\ users[id].password = "")
           THEN Commit(s, Fail(c, now, AppError("Invalid credentials", 401), "none"))
           ELSE IF ~users[id].isActive
           THEN Commit(s, Fail(c, now, AppError("Account is deactivated", 401), "none"))
           ELSE Commit(s, [c EXCEPT !.req.pc = "login:compare",
                                    !.req.tmp = [id |-> id, email |-> users[id].email, role |-> users[id].role,
                                                 password |-> users[id].password,
                                                 isActive |-> users[id].isActive]])
    /\ UNCHANGED <<now, users, nextId, dbVer, doneVer, arrivals, gate, probe>>

\* authService.login after bcrypt.compare: 401, or a token and 200
LoginSend(s) ==
    /\ reqs[s].pc = "login:compare"
    /\ LET row == reqs[s].tmp
           token == generateToken([userId |-> row.id, email |-> row.email, role |-> row.role], now)
       IN  IF reqs[s].body.password # row.password
           THEN Commit(s, Fail(Ctx(s), now, AppError("Invalid credentials", 401), "none"))
           ELSE Commit(s, Respond([Ctx(s) EXCEPT !.issued = @ \cup {token}], now, 200,
                                  [message |-> "Login successful", data |-> token, timestamp |-> now],
                                  "none", "none"))
    /\ UNCHANGED <<now, users, nextId, dbVer, doneVer, arrivals, gate, probe>>

\* authService.register: findUnique by email; an existing row is 409
RegisterFind(s) ==
    /\ reqs[s].pc = "register:find"
    /\ LET c == [Ctx(s) EXCEPT !.req.dbHandler = TRUE]
       IN  IF findByEmail(users, reqs[s].body.email) # 0
           THEN Commit(s, Fail(c, now, AppError("User with this email already exists", 409), "none"))
           ELSE Commit(s, [c EXCEPT !.req.pc = "register:create"])
    /\ UNCHANGED <<now, users, nextId, dbVer, doneVer, arrivals, gate, probe>>

\* authService.register: prisma.user.create with role USER; P2002 is not an
\* AppError, so the error handler answers 500
RegisterCreate(s) ==
    /\ reqs[s].pc = "register:create"
    /\ IF findByEmail(users, reqs[s].body.email) # 0
       THEN /\ Commit(s, Fail(Ctx(s), now, AppError("Unique constraint failed on the fields: (email)", 500), "none"))
            /\ UNCHANGED <<users, nextId, dbVer>>
       ELSE /\ nextId <= MaxUsers
            /\ users' = [users EXCEPT ![nextId] = [name |-> reqs[s].body.name, email |-> reqs[s].body.email,
                                                   role |-> "USER", isActive |-> TRUE,
                                                   password |-> reqs[s].body.password]]
            /\ nextId' = nextId + 1
            /\ dbVer' = dbVer + 1
            /\ reqs' = [reqs EXCEPT ![s].pc = "register:send",
                                    ![s].tmp = [id |-> nextId, email |-> reqs[s].body.email, role |-> "USER"]]
            /\ UNCHANGED <<cache, hits, issued, stored, rl>>
    /\ UNCHANGED <<now, doneVer, arrivals, gate, probe>>

\* authController.register after the await: the token and 201
RegisterSend(s) ==
    /\ reqs[s].pc = "register:send"
    /\ LET row == reqs[s].tmp
           token == generateToken([userId |-> row.id, email |-> row.email, role |-> row.role], now)
       IN  Commit(s, Respond([Ctx(s) EXCEPT !.issued = @ \cup {token}], now, 201,
                             [message |-> "User registered successfully", data |-> token, timestamp |-> now],
                             "none", "none"))
    /\ UNCHANGED <<now, users, nextId, dbVer, doneVer, arrivals, gate, probe>>

\* authService.deactivateUser(userId)
DeactivateUser(id) ==
    /\ users[id] # NoValue
    /\ users[id].isActive
    /\ users' = [users EXCEPT ![id].isActive = FALSE]
    /\ dbVer' = dbVer + 1
    /\ UNCHANGED <<now, nextId, cache, hits, reqs, issued, stored, doneVer, arrivals, gate, rl, probe>>

\* Date.now() advances to a later instant of the given set
Tick(points) ==
    /\ \E t \in points : t > now /\ now' = t
    /\ UNCHANGED <<users, nextId, cache, hits, reqs, issued, stored, dbVer, doneVer, arrivals, gate, rl, probe>>

----------------------------------------------------------------------------
(* A running deployment: two registered users who have logged in at time   *)
(* 0 from the first address, the first of them promoted to ADMIN with      *)
(* authService.updateUserRole                                              *)

SeedUsers ==
    [i \in Ids |->
        IF i = 1 THEN [name |-> "Al", email |-> "a@x.io", role |-> "ADMIN", isActive |-> TRUE, password |-> "pw1"]
        ELSE IF i = 2 THEN [name |-> "Bo", email |-> "b@x.io", role |-> "USER", isActive |-> TRUE, password |-> "pw2"]
        ELSE NoValue]

SeedToken(i) ==
    generateToken([userId |-> i, email |-> SeedUsers[i].email, role |-> SeedUsers[i].role], 0)

\* two registrations and two logins were counted by the general limiter and
\* by the speed limiter; the auth limiter took its four hits back because
\* all four succeeded
SeedHits ==
    [n \in StoreNames |->
        [k \in IPs |->
            IF k # "10.0.0.1" THEN NoValue
            ELSE IF n = "general" THEN [totalHits |-> 4, resetTime |-> RATE_LIMIT_WINDOW_MS]
            ELSE IF n = "speed" THEN [totalHits |-> 4, resetTime |-> speedLimiter.windowMs]
            ELSE IF n = "auth" THEN [totalHits |-> 0, resetTime |-> authLimiter.windowMs]
            ELSE NoValue]]

SeededInit ==
    /\ now = 0
    /\ users = SeedUsers
    /\ nextId = 3
    /\ cache = <<>>
    /\ hits = SeedHits
    /\ reqs = [s \in Slots |-> Idle]
    /\ issued = {SeedToken(1), SeedToken(2)}
    /\ stored = {}
    /\ dbVer = 3
    /\ doneVer = 0
    /\ arrivals = 0
    /\ gate = GateIdle
    /\ probe = ProbeIdle
    /\ rl = RlIdle

EmptyBody == [name |-> "", email |-> "", password |-> ""]

\* the Authorization headers a client can send: none, a string that is no
\* token, an issued token, an issued token with its signature altered
AuthHeaders ==
    {<<>>, <<"Bearer", Garbage>>}
        \cup {<<"Bearer", tok>> : tok \in issued}
        \cup {<<"Bearer", [tok EXCEPT !.sig = "forged"]>> : tok \in {x \in issued : x.userId = 2}}

----------------------------------------------------------------------------
(* Authentication: protected routes, deactivation, deletion, token expiry *)

\* requests of one behaviour
MaxArrivalsAuth == 2

\* instants around the expiry of the tokens issued at 0
AuthTimes == {0, 604799999, 604800001}

AuthRoutes == {"GET /auth/profile", "DELETE /users/:id"}

ArriveAuth ==
    \E s \in Slots, route \in AuthRoutes, h \in AuthHeaders :
        Arrive(s, route, IF HasIdParam(route) THEN <<"2">> ELSE <<>>, "10.0.0.1", h, NoValue,
               EmptyBody, MaxArrivalsAuth, MaxInflight, TRUE)

InitAuth == SeededInit

NextAuth ==
    \/ ArriveAuth
    \/ \E s \in Slots : AuthLookup(s)
    \/ \E s \in Slots : DeleteFind(s)
    \/ \E s \in Slots : DeleteWrite(s)
    \/ \E s \in Slots : DeleteSend(s)
    \/ DeactivateUser(1)   \* the administrator; the second user is the one deleted
    \/ Tick(AuthTimes)

SpecAuth == InitAuth /\ [][NextAuth]_vars

Started(r) == r.pc # "idle"

Done(r) == r.pc = "done"

\* the token a request presents is a well-formed one with a valid signature
PresentsSigned(r) ==
    /\ BearerToken(r.authHeader) # NoValue
    /\ BearerToken(r.authHeader).kind = "jwt"
    /\ BearerToken(r.authHeader).sig = "valid"

\* C1: a request whose verified token names a principal that was already
\* deactivated or deleted when its authentication started never gets a
\* principal attached and is answered 401 by the authentication gate; a
\* request whose verified token names a principal that is present and
\* active at the lookup gets exactly that principal attached.
C1_StalePrincipalRejected ==
    \A s \in Slots :
        LET r == reqs[s]
        IN  Started(r) /\ r.decoded # NoValue =>
                /\ r.goneAtStart =>
                        /\ r.user = NoValue
                        /\ r.pc \in {"authLookup", "done"}
                        /\ Done(r) => r.res.status = 401 /\ r.rejectedBy = "authn"
                /\ r.pc # "authLookup" /\ ~r.goneAtLookup =>
                        /\ r.user # NoValue
                        /\ r.user.id = r.decoded.userId
                        /\ r.rejectedBy # "authn"

\* the same token authenticated one request and, after the deactivation of
\* its principal, was refused on another
C1_Witness ==
    \E s1, s2 \in Slots :
        /\ Done(reqs[s1]) /\ Done(reqs[s2])
        /\ reqs[s1].authHeader = reqs[s2].authHeader
        /\ PresentsSigned(reqs[s1])
        /\ reqs[s1].res.status = 200 /\ reqs[s1].user # NoValue
        /\ reqs[s2].goneAtStart /\ reqs[s2].decoded # NoValue
        /\ reqs[s2].res.status = 401 /\ reqs[s2].user = NoValue
        /\ users[reqs[s2].decoded.userId] # NoValue

\* a deleted principal's token was refused
C1_WitnessDeleted ==
    \E s \in Slots :
        /\ Done(reqs[s]) /\ reqs[s].goneAtStart /\ reqs[s].decoded # NoValue
        /\ users[reqs[s].decoded.userId] = NoValue
        /\ reqs[s].res.status = 401

\* C9: any two requests refused by the authentication gate carry the same
\* status and the same message.
C9_UniformAuthFailure ==
    \A s1, s2 \in Slots :
        Done(reqs[s1]) /\ Done(reqs[s2]) /\ reqs[s1].rejectedBy = "authn" /\ reqs[s2].rejectedBy = "authn" =>
            /\ reqs[s1].res.status = reqs[s2].res.status
            /\ reqs[s1].res.body.message = reqs[s2].res.body.message

\* the status alone is uniform
C9_StatusUniform ==
    \A s \in Slots : Done(reqs[s]) /\ reqs[s].rejectedBy = "authn" => reqs[s].res.status = 401

\* the token's exp, in milliseconds, is before the instant of verification
ExpiredAt(token, t) == token.exp * 1000 < t

\* C10: a request presenting a token whose expiry is in the past when the
\* request is verified is never authenticated, whatever its signature and
\* whatever the state of its principal; unless the general limiter refused
\* it first, the answer is 401 from the authentication gate.
C10_ExpiredTokenRejected ==
    \A s \in Slots :
        LET r == reqs[s]
            token == BearerToken(r.authHeader)
        IN  Started(r) /\ token # NoValue /\ token.kind = "jwt" /\ ExpiredAt(token, r.t0) =>
                /\ ~verifyToken(token, r.t0).ok
                /\ r.decoded = NoValue
                /\ r.user = NoValue
                /\ Done(r)
                /\ r.rejectedBy \in {"authn", "general"}
                /\ r.rejectedBy = "authn" =>
                        r.res.status = 401 /\ r.res.body.message = "Invalid or expired token"

\* an expired token with a valid signature and an active principal was refused
C10_Witness ==
    \E s \in Slots :
        /\ Done(reqs[s])
        /\ PresentsSigned(reqs[s])
        /\ ExpiredAt(BearerToken(reqs[s].authHeader), reqs[s].t0)
        /\ users[BearerToken(reqs[s].authHeader).userId] # NoValue
        /\ users[BearerToken(reqs[s].authHeader).userId].isActive
        /\ reqs[s].res.status = 401

----------------------------------------------------------------------------
(* Response cache: cached GET routes, one mutating route, expiry, eviction *)

\* requests of one behaviour
MaxArrivalsCache == 2

\* requests in flight at once in the behaviours of the cache
MaxInflightCache == 1

\* 120001 ms: after the 30 s of health and the 120 s of the user list, inside
\* the 300 s of a single user
CacheTimes == {0, 120001}

CacheRoutes == {"GET /users", "GET /users/:id", "GET /health", "PUT /users/:id"}

\* the ttl cacheMiddleware is given on each cached route, in milliseconds
RouteTtl(route) ==
    CASE route = "GET /health" -> 30 * 1000
      [] route = "GET /users" -> 120 * 1000
      [] route = "GET /users/:id" -> 300 * 1000

\* If-None-Match: absent, or the validator of a payload the client was sent
\* and no mutation has outdated, whether or not it is still in the cache
Validators == {NoValue} \cup {ETag(x.data) : x \in stored}

\* the second user, or for a GET an id no user has
ArriveCache ==
    \E s \in Slots, route \in CacheRoutes, inm \in Validators, id \in {"2", "3"} :
        /\ Method(route) # "GET" => inm = NoValue
        /\ (route # "GET /users/:id" \/ inm # NoValue) => id = "2"
        /\ Arrive(s, route, IF HasIdParam(route) THEN <<id>> ELSE <<>>, "10.0.0.2",
                  <<"Bearer", SeedToken(1)>>, inm,
                  IF route = "PUT /users/:id" THEN [name |-> "Al", email |-> "", password |-> ""] ELSE EmptyBody,
                  MaxArrivalsCache, MaxInflightCache, FALSE)

HealthKey == <<"GET", "/api/v1/health", <<>>, "{}">>

\* the answer of healthController at 0
HealthBody == [message |-> "Service is healthy", data |-> [status |-> "OK"], timestamp |-> 0]

BusyKey == <<"GET", "/api/v1/users", <<>>, "{}">>

\* the answer of getAllUsers at 0
UsersBody ==
    [message |-> "Users retrieved successfully", data |-> [rows |-> findMany(SeedUsers), ver |-> 3],
     timestamp |-> 0]

\* the deployment of SeededInit after one poll of the health check from the
\* third address and one listing of the users by the administrator from the
\* second, whose answers fill the cache
InitCache ==
    /\ now = 0
    /\ users = SeedUsers
    /\ nextId = 3
    /\ cache = CacheSet(CacheSet(<<>>, HealthKey, HealthBody, 30, 0), BusyKey, UsersBody, 120, 0)
    /\ hits = [SeedHits EXCEPT !["speed"]["10.0.0.3"] = [totalHits |-> 1, resetTime |-> speedLimiter.windowMs],
                               !["speed"]["10.0.0.2"] = [totalHits |-> 1, resetTime |-> speedLimiter.windowMs],
                               !["general"]["10.0.0.2"] = [totalHits |-> 1, resetTime |-> RATE_LIMIT_WINDOW_MS]]
    /\ reqs = [s \in Slots |-> Idle]
    /\ issued = {SeedToken(1), SeedToken(2)}
    /\ stored = {[key |-> HealthKey, data |-> HealthBody, at |-> 0, evicted |-> FALSE],
                 [key |-> BusyKey, data |-> UsersBody, at |-> 0, evicted |-> FALSE]}
    /\ dbVer = 3
    /\ doneVer = 0
    /\ arrivals = 0
    /\ gate = GateIdle
    /\ rl = RlIdle
    /\ probe = ProbeIdle

NextCache ==
    \/ ArriveCache
    \/ \E s \in Slots : AuthLookup(s)
    \/ \E s \in Slots : GetAllRead(s)
    \/ \E s \in Slots : GetAllSend(s)
    \/ \E s \in Slots : GetByIdRead(s)
    \/ \E s \in Slots : GetByIdSend(s)
    \/ \E s \in Slots : UpdateFind(s)
    \/ \E s \in Slots : UpdateWrite(s)
    \/ \E s \in Slots : UpdateSend(s)
    \/ Tick(CacheTimes)

SpecCache == InitCache /\ [][NextCache]_vars

\* the request looked its key up in the cache
LookedUp(r) == Started(r) /\ r.cacheRead

\* milliseconds between the store of the payload the lookup could see and the lookup
Elapsed(r) == r.lookupAt - r.seen.at

\* the request was answered from the cache: the stored payload (or 304 when
\* its If-None-Match is the validator of that payload), without the handler
ServedFromCache(r) ==
    /\ Done(r)
    /\ r.res.xCache = "HIT"
    /\ ~r.handler /\ ~r.dbHandler
    /\ r.res.etag = ETag(r.seen.data)
    /\ IF r.ifNoneMatch = ETag(r.seen.data)
       THEN r.res.status = 304 /\ r.res.body = NoValue
       ELSE r.res.status = 200 /\ r.res.body = r.seen.data

\* the lookup missed and the request went on to the handler
WentToHandler(r) == r.handler /\ r.intercept # NoValue /\ (Done(r) => r.res.xCache # "HIT")

C2_WitnessExpired ==
    \E s \in Slots :
        /\ LookedUp(reqs[s]) /\ reqs[s].seen # NoValue
        /\ Elapsed(reqs[s]) > RouteTtl(reqs[s].route)
        /\ Done(reqs[s]) /\ reqs[s].handler /\ reqs[s].res.status = 200

\* a conditional request was answered 304 from the cache
C2_WitnessNotModified ==
    \E s \in Slots :
        /\ LookedUp(reqs[s]) /\ ServedFromCache(reqs[s]) /\ reqs[s].res.status = 304

\* a payload evicted for capacity was looked up within its ttl
C2_WitnessEvicted ==
    \E s \in Slots :
        /\ LookedUp(reqs[s]) /\ reqs[s].seen # NoValue /\ reqs[s].seen.evicted
        /\ Elapsed(reqs[s]) < RouteTtl(reqs[s].route)
        /\ reqs[s].handler

----------------------------------------------------------------------------
(* Rate limiting: one client sending logins and user creations over time *)

\* requests of one behaviour
MaxArrivalsRate == 4

\* requests in flight at once in the behaviours of the limiters
MaxInflightRate == 1

\* the last instant of the second quarter of an hour, its end, and the end of
\* the hour that starts at 0
RateTimes == {1799999, 1800000, 3600000}

RateRoutes == {"POST /auth/login", "POST /users"}

\* a login of the second user with the right or a wrong password, or a
\* creation without a body sent by the administrator
ArriveRate ==
    \E s \in Slots, route \in RateRoutes, pw \in {"pw2", "wrong"} :
        /\ route = "POST /users" => pw = "pw2"
        /\ Arrive(s, route, <<>>, "10.0.0.2",
                  IF route = "POST /users" THEN <<"Bearer", SeedToken(1)>> ELSE <<>>, NoValue,
                  IF route = "POST /users" THEN EmptyBody ELSE [name |-> "", email |-> "b@x.io", password |-> pw],
                  MaxArrivalsRate, MaxInflightRate, FALSE)

\* logins the second address has sent, one at a time, at 1799999
SeedLogins == 3

\* the second address has sent: at 0, as many creations without a body as the
\* general limiter lets through in a window; from 900000 on, requests without
\* a token; at 1799999, SeedLogins logins that all failed or all succeeded,
\* which fill the general window that started at 900000
RateHits(failed) ==
    [SeedHits EXCEPT !["general"]["10.0.0.2"] =
                         [totalHits |-> RATE_LIMIT_MAX_REQUESTS, resetTime |-> 2 * RATE_LIMIT_WINDOW_MS],
                     !["speed"]["10.0.0.2"] =
                         [totalHits |-> RATE_LIMIT_MAX_REQUESTS, resetTime |-> 2 * speedLimiter.windowMs],
                     !["auth"]["10.0.0.2"] =
                         [totalHits |-> IF failed THEN SeedLogins ELSE 0,
                          resetTime |-> 1799999 + authLimiter.windowMs],
                     !["userModification"]["10.0.0.2"] =
                         [totalHits |-> RATE_LIMIT_MAX_REQUESTS, resetTime |-> userModificationLimiter.windowMs]]

\* the history of those logins
RateLog(failed) ==
    [RlIdle EXCEPT !["10.0.0.2"] =
        IF failed THEN [lastOk |-> FALSE, oks |-> 0, fails |-> SeedLogins, since |-> 1799999]
        ELSE [lastOk |-> TRUE, oks |-> SeedLogins, fails |-> 0, since |-> 0]]

InitRate ==
    \E failed \in BOOLEAN :
        /\ now = 1799999
        /\ users = SeedUsers
        /\ nextId = 3
        /\ cache = <<>>
        /\ hits = RateHits(failed)
        /\ reqs = [s \in Slots |-> Idle]
        /\ issued = {SeedToken(1), SeedToken(2)}
        /\ stored = {}
        /\ dbVer = 3
        /\ doneVer = 0
        /\ arrivals = 0
        /\ gate = GateIdle
        /\ probe = ProbeIdle
        /\ rl = RateLog(failed)

NextRate ==
    \/ ArriveRate
    \/ \E s \in Slots : AuthLookup(s)
    \/ \E s \in Slots : LoginFind(s)
    \/ \E s \in Slots : LoginSend(s)
    \/ Tick(RateTimes)

SpecRate == InitRate /\ [][NextRate]_vars

\* the client's window was still running when the tier counted the request
WindowOpen(x) == x.before # NoValue /\ x.at < x.before.resetTime

\* the tier answered 429 with its message, and nothing later ran
RejectedBy(r, n) ==
    /\ Done(r)
    /\ r.rejectedBy = n
    /\ r.res.status = 429
    /\ r.res.body.message = TierOf(n).message
    /\ ~r.handler

\* C4: for every tier and client, a request counted while the window is
\* running and max requests are already counted is answered 429; one counted
\* with fewer is let through and counted; one counted when the window is over
\* (now >= its end, or no window yet) starts a new window of the tier's
\* duration at now with this request as the only one counted, and is let
\* through.
C4_WindowLimit ==
    \A s \in Slots, n \in TierNames :
        LET r == reqs[s]
            x == r.rlSeen[n]
            tier == TierOf(n)
        IN  Started(r) /\ x # NoValue =>
                /\ WindowOpen(x) /\ x.before.totalHits >= tier.max => RejectedBy(r, n)
                /\ WindowOpen(x) /\ x.before.totalHits < tier.max =>
                        /\ r.rejectedBy # n
                        /\ x.after = [totalHits |-> x.before.totalHits + 1, resetTime |-> x.before.resetTime]
                /\ ~WindowOpen(x) =>
                        /\ r.rejectedBy # n
                        /\ x.after = [totalHits |-> 1, resetTime |-> x.at + tier.windowMs]

\* a client that had been refused in its window was let through once the
\* window was over
C4_Witness ==
    \E s \in Slots, n \in TierNames :
        LET r == reqs[s]
            x == r.rlSeen[n]
        IN  /\ Started(r) /\ x # NoValue /\ x.before # NoValue
            /\ x.before.totalHits > TierOf(n).max
            /\ x.at >= x.before.resetTime
            /\ Done(r) /\ r.rejectedBy = "none" /\ r.handler

C4_WitnessGeneral == \E s \in Slots : Started(reqs[s]) /\ RejectedBy(reqs[s], "general")

C4_WitnessAuth == \E s \in Slots : Started(reqs[s]) /\ RejectedBy(reqs[s], "auth")

C4_WitnessUserModification == \E s \in Slots : Started(reqs[s]) /\ RejectedBy(reqs[s], "userModification")

\* C5: a login counted by the auth tier is let through by that tier when the
\* client's last answered login succeeded, one request at a time, and the
\* client has nothing else in flight, however many successful logins came
\* before; it is answered 429 when the client's last five or more answered
\* logins failed, one request at a time, and all of them were counted in the
\* window that is still running.
C5_AuthTier ==
    \A s \in Slots :
        LET r == reqs[s]
            x == r.rlSeen["auth"]
        IN  Started(r) /\ r.route = "POST /auth/login" /\ x # NoValue =>
                /\ r.log0.lastOk /\ r.aloneAtStart => r.rejectedBy # "auth"
                /\ r.log0.fails >= 5 /\ WindowOpen(x)
                   /\ r.log0.since >= x.before.resetTime - authLimiter.windowMs => RejectedBy(r, "auth")

\* after five failed logins in one window the next login was answered 429
C5_Witness ==
    \E s \in Slots :
        LET r == reqs[s]
        IN  /\ Started(r) /\ r.route = "POST /auth/login" /\ r.rlSeen["auth"] # NoValue
            /\ r.log0.fails = 5
            /\ RejectedBy(r, "auth")

\* after five successful logins in one window the next login succeeded
C5_WitnessSuccess ==
    \E s \in Slots :
        LET r == reqs[s]
        IN  /\ Started(r) /\ r.route = "POST /auth/login" /\ r.rlSeen["auth"] # NoValue
            /\ r.log0.oks >= 5
            /\ WindowOpen(r.rlSeen["auth"])
            /\ Done(r) /\ r.res.status = 200

----------------------------------------------------------------------------
(* Reads of the user list concurrent with an update *)

\* requests of one behaviour
MaxArrivalsStale == 3

StaleRoutes == {"GET /users", "PUT /users/:id"}

ArriveStale ==
    \E s \in Slots, route \in StaleRoutes :
        Arrive(s, route, IF HasIdParam(route) THEN <<"2">> ELSE <<>>, "10.0.0.2",
               <<"Bearer", SeedToken(1)>>, NoValue,
               IF route = "PUT /users/:id" THEN [name |-> "Al", email |-> "", password |-> ""] ELSE EmptyBody,
               MaxArrivalsStale, MaxInflight, FALSE)

InitStale == SeededInit

NextStale ==
    \/ ArriveStale
    \/ \E s \in Slots : AuthLookup(s)
    \/ \E s \in Slots : GetAllRead(s)
    \/ \E s \in Slots : GetAllSend(s)
    \/ \E s \in Slots : UpdateFind(s)
    \/ \E s \in Slots : UpdateWrite(s)
    \/ \E s \in Slots : UpdateSend(s)

SpecStale == InitStale /\ [][NextStale]_vars

\* C3: a GET of the user list that arrives after a mutating user request has
\* completed is answered with data read after that mutation.
C3_FreshAfterMutation ==
    \A s \in Slots :
        LET r == reqs[s]
        IN  Done(r) /\ r.route = "GET /users" /\ r.res.status = 200 =>
                r.res.body.data.ver >= r.ver0

\* a GET of the list that arrived after a completed update was served, from
\* the cache, a payload read before that update
C3_StaleHit ==
    \E s \in Slots :
        /\ Done(reqs[s]) /\ reqs[s].route = "GET /users" /\ reqs[s].res.xCache = "HIT"
        /\ reqs[s].res.status = 200
        /\ reqs[s].res.body.data.ver < reqs[s].ver0

----------------------------------------------------------------------------
(* The whole pipeline: every route, three clients, limiters near their limits *)

\* requests of one behaviour
MaxArrivals == 1

\* requests in flight at once
MaxInflightAll == 1

\* The deployment of SeededInit half an hour later. From the first address
\* five logins with a wrong password have just failed; from the second the
\* administrator sent seven creations without a body a quarter of an hour
\* ago, and just now three more and a request for the user list, which is
\* in the cache; from the third as many requests without a token as the
\* general limiter lets through have just been refused by the authentication.
BusyHits ==
    [n \in StoreNames |->
        [k \in IPs |->
            CASE n = "general" /\ k = "10.0.0.1" -> [totalHits |-> 5, resetTime |-> 1800000 + RATE_LIMIT_WINDOW_MS]
              [] n = "general" /\ k = "10.0.0.2" -> [totalHits |-> 4, resetTime |-> 1800000 + RATE_LIMIT_WINDOW_MS]
              [] n = "general" /\ k = "10.0.0.3" ->
                    [totalHits |-> RATE_LIMIT_MAX_REQUESTS, resetTime |-> 1800000 + RATE_LIMIT_WINDOW_MS]
              [] n = "speed" /\ k = "10.0.0.1" -> [totalHits |-> 5, resetTime |-> 1800000 + speedLimiter.windowMs]
              [] n = "speed" /\ k = "10.0.0.2" -> [totalHits |-> 4, resetTime |-> 1800000 + speedLimiter.windowMs]
              [] n = "speed" /\ k = "10.0.0.3" ->
                    [totalHits |-> RATE_LIMIT_MAX_REQUESTS, resetTime |-> 1800000 + speedLimiter.windowMs]
              [] n = "auth" /\ k = "10.0.0.1" -> [totalHits |-> 5, resetTime |-> 1800000 + authLimiter.windowMs]
              [] n = "userModification" /\ k = "10.0.0.2" ->
                    [totalHits |-> 10, resetTime |-> 900000 + userModificationLimiter.windowMs]
              [] OTHER -> NoValue]]

\* the answer to the administrator's request for the list
BusyList ==
    [message |-> "Users retrieved successfully", data |-> [rows |-> findMany(SeedUsers), ver |-> 3],
     timestamp |-> 1800000]

Init ==
    /\ now = 1800000
    /\ users = SeedUsers
    /\ nextId = 3
    /\ cache = CacheSet(<<>>, BusyKey, BusyList, 120, 1800000)
    /\ hits = BusyHits
    /\ reqs = [s \in Slots |-> Idle]
    /\ issued = {SeedToken(1), SeedToken(2)}
    /\ stored = {[key |-> BusyKey, data |-> BusyList, at |-> 1800000, evicted |-> FALSE]}
    /\ dbVer = 3
    /\ doneVer = 0
    /\ arrivals = 0
    /\ gate = GateIdle
    /\ probe = ProbeIdle
    /\ rl = [RlIdle EXCEPT !["10.0.0.1"] = [lastOk |-> FALSE, oks |-> 0, fails |-> 5, since |-> 1800000]]

\* the clients: the second user at the first address with its token, with
\* no header, with the scheme alone, or with two spaces before its token; the administrator at the second, a stranger at the third
Clients ==
    {[ip |-> "10.0.0.1", authHeader |-> <<>>],
     [ip |-> "10.0.0.1", authHeader |-> <<"Bearer">>],
     [ip |-> "10.0.0.1", authHeader |-> <<"Bearer", EmptyPart, SeedToken(2)>>],
     [ip |-> "10.0.0.1", authHeader |-> <<"Bearer", SeedToken(2)>>],
     [ip |-> "10.0.0.2", authHeader |-> <<"Bearer", SeedToken(1)>>],
     [ip |-> "10.0.0.3", authHeader |-> <<>>]}

\* the body each route is sent
BodyFor(route) ==
    CASE route = "POST /auth/register" -> [name |-> "Cy", email |-> "c@x.io", password |-> "pw3"]
      [] route = "POST /auth/login" -> [name |-> "", email |-> "b@x.io", password |-> "pw2"]
      [] route = "POST /users" -> [name |-> "Cy", email |-> "c@x.io", password |-> ""]
      [] route = "PUT /users/:id" -> [name |-> "Bob", email |-> "b@x.io", password |-> ""]
      [] OTHER -> EmptyBody

\* the end of the hour of the second address
Times == {1800000, 4500000}

ArriveAny ==
    \E s \in Slots, route \in Routes, c \in Clients :
        Arrive(s, route, IF HasIdParam(route) THEN <<"2">> ELSE <<>>, c.ip, c.authHeader, NoValue,
               BodyFor(route), MaxArrivals, MaxInflightAll, FALSE)

Next ==
    \/ ArriveAny
    \/ \E s \in Slots : AuthLookup(s)
    \/ \E s \in Slots : GetAllRead(s)
    \/ \E s \in Slots : GetAllSend(s)
    \/ \E s \in Slots : GetByIdRead(s)
    \/ \E s \in Slots : GetByIdSend(s)
    \/ \E s \in Slots : CreateCheck(s)
    \/ \E s \in Slots : CreateWrite(s)
    \/ \E s \in Slots : CreateSend(s)
    \/ \E s \in Slots : UpdateCheck(s)
    \/ \E s \in Slots : UpdateFind(s)
    \/ \E s \in Slots : UpdateWrite(s)
    \/ \E s \in Slots : UpdateSend(s)
    \/ \E s \in Slots : DeleteFind(s)
    \/ \E s \in Slots : DeleteWrite(s)
    \/ \E s \in Slots : DeleteSend(s)
    \/ \E s \in Slots : LoginFind(s)
    \/ \E s \in Slots : LoginSend(s)
    \/ \E s \in Slots : RegisterFind(s)
    \/ \E s \in Slots : RegisterCreate(s)
    \/ \E s \in Slots : RegisterSend(s)
    \/ Tick(Times)

Spec == Init /\ [][Next]_vars

\* the stages that refuse requests: the limiters, authentication, authorization
Refusers == TierNames \cup {"authn", "authz"}

\* C8: a request refused by a rate-limit tier, by the authentication gate or
\* by an authorization gate is answered at once, and for that request no
\* handler has started, no handler has read or written the user table, the
\* cache has been neither looked up nor written nor prepared for a write, and
\* no invalidation has fired.
C8_ShortCircuit ==
    \A s \in Slots :
        LET r == reqs[s]
        IN  Started(r) /\ r.rejectedBy \in Refusers =>
                /\ Done(r)
                /\ r.res.status \in {401, 403, 429}
                /\ ~r.handler
                /\ ~r.dbHandler
                /\ ~r.cacheRead
                /\ ~r.cacheWrite
                /\ r.intercept = NoValue
                /\ ~r.invalidated
                /\ r.tmp = NoValue

\* a request without a token for the user list was refused while the cache
\* held the list
C8_Witness ==
    \E s \in Slots :
        /\ Done(reqs[s]) /\ reqs[s].route = "GET /users" /\ reqs[s].rejectedBy = "authn"
        /\ HasKey(cache, CacheKey(reqs[s]))

C8_WitnessAuthz ==
    \E s \in Slots : Done(reqs[s]) /\ reqs[s].rejectedBy = "authz" /\ reqs[s].route = "DELETE /users/:id"

C8_WitnessGeneral ==
    \E s \in Slots : Done(reqs[s]) /\ reqs[s].rejectedBy = "general" /\ reqs[s].route = "GET /users"

C8_WitnessAuthTier ==
    \E s \in Slots : Done(reqs[s]) /\ reqs[s].rejectedBy = "auth" /\ reqs[s].route = "POST /auth/login"

C8_WitnessUserModification ==
    \E s \in Slots : Done(reqs[s]) /\ reqs[s].rejectedBy = "userModification" /\ reqs[s].route = "POST /users"

----------------------------------------------------------------------------
(* Requests without a bearer token *)

\* the route runs authenticateToken
Protected(route) == \E i \in 1..Len(RouteChain(route)) : RouteChain(route)[i] = "authenticateToken"

C11_WitnessTwoSpaces ==
    \E s \in Slots :
        /\ Done(reqs[s]) /\ Protected(reqs[s].route) /\ Len(reqs[s].authHeader) = 3
        /\ reqs[s].rejectedBy = "authn" /\ reqs[s].res.body.message = "Access token is required"

\* no header at all
C11_WitnessNoHeader ==
    \E s \in Slots :
        /\ Done(reqs[s]) /\ Protected(reqs[s].route) /\ reqs[s].authHeader = <<>>
        /\ reqs[s].rejectedBy = "authn" /\ reqs[s].res.status = 401

----------------------------------------------------------------------------
(* The retry-after hint of a rate-limit rejection *)

\* milliseconds left, when the tier counted the request, in the window it
\* counted it in
Remaining(x) == x.after.resetTime - x.at

C12_RetryAfterBounded ==
    \A s \in Slots, n \in TierNames :
        LET r == reqs[s]
        IN  Started(r) /\ RejectedBy(r, n) =>
                /\ r.res.body.retryAfter > 0
                /\ r.res.body.retryAfter * 60 * 1000 <= TierOf(n).windowMs
                /\ r.res.body.retryAfter * 60 * 1000 >= Remaining(r.rlSeen[n])
                /\ n = "auth" => r.res.body.retryAfter * 60 <= 900

\* a login refused by the auth tier after five failed ones
C12_WitnessSixthLogin ==
    \E s \in Slots :
        /\ Started(reqs[s]) /\ RejectedBy(reqs[s], "auth") /\ reqs[s].log0.fails >= 5
        /\ reqs[s].res.body.retryAfter = 15

\* a request refused a millisecond before the end of its window was told to
\* wait the whole window
C12_WitnessLate ==
    \E s \in Slots, n \in TierNames :
        /\ Started(reqs[s]) /\ RejectedBy(reqs[s], n)
        /\ Remaining(reqs[s].rlSeen[n]) = 1
        /\ reqs[s].res.body.retryAfter * 60 * 1000 = TierOf(n).windowMs

----------------------------------------------------------------------------
(* The progressive delay: a monitor polling the health check *)

\* requests of one behaviour
MaxArrivalsSlow == 3

\* the end of the quarter of an hour that starts at 0
SlowTimes == {0, 900000}

SlowRoutes == {"GET /health", "GET /auth/profile"}

\* the deployment of SeededInit, where a monitor at the third address has
\* just polled the health check one time less than delayAfter: the general
\* limiter skipped these requests, the speed limiter counted them, and the
\* first answer is in the cache
SlowHits ==
    [SeedHits EXCEPT !["speed"]["10.0.0.3"] =
                         [totalHits |-> speedLimiter.delayAfter - 1, resetTime |-> speedLimiter.windowMs]]

InitSlow ==
    /\ now = 0
    /\ users = SeedUsers
    /\ nextId = 3
    /\ cache = CacheSet(<<>>, HealthKey, HealthBody, 30, 0)
    /\ hits = SlowHits
    /\ reqs = [s \in Slots |-> Idle]
    /\ issued = {SeedToken(1), SeedToken(2)}
    /\ stored = {[key |-> HealthKey, data |-> HealthBody, at |-> 0, evicted |-> FALSE]}
    /\ dbVer = 3
    /\ doneVer = 0
    /\ arrivals = 0
    /\ gate = GateIdle
    /\ probe = ProbeIdle
    /\ rl = RlIdle

\* the monitor polls again, or asks for the profile of the second user
ArriveSlow ==
    \E s \in Slots, route \in SlowRoutes :
        Arrive(s, route, <<>>, "10.0.0.3",
               IF route = "GET /health" THEN <<>> ELSE <<"Bearer", SeedToken(2)>>, NoValue,
               EmptyBody, MaxArrivalsSlow, MaxInflight, FALSE)

NextSlow ==
    \/ ArriveSlow
    \/ \E s \in Slots : SlowDownResume(s)
    \/ \E s \in Slots : AuthLookup(s)
    \/ Tick(SlowTimes)

SpecSlow == InitSlow /\ [][NextSlow]_vars

\* the request was counted by the speed limiter
Slowed(r) == Started(r) /\ r.slow # NoValue

\* C13: a request to a health-check route is counted by no tier, is never
\* answered 429 and is never delayed by the speed limiter.
C13_HealthExempt ==
    \A s \in Slots :
        LET r == reqs[s]
        IN  Started(r) /\ PathIncludesHealth(r) =>
                /\ r.counted = {}
                /\ r.rejectedBy \notin TierNames
                /\ r.slow = NoValue
                /\ r.pc # "delayed"

\* the part of C13 that holds: the rejecting tiers neither count nor
\* refuse a request to a health-check route
C13_HealthNeverRefused ==
    \A s \in Slots :
        LET r == reqs[s]
        IN  Started(r) /\ PathIncludesHealth(r) =>
                /\ r.counted = {}
                /\ \A n \in TierNames : r.rlSeen[n] = NoValue
                /\ r.rejectedBy \notin TierNames
                /\ Done(r) => r.res.status # 429

\* a poll of the health check was counted by the speed limiter and held
\* back for the maximum delay
C13_WitnessHealthDelayed ==
    \E s \in Slots :
        /\ Started(reqs[s]) /\ PathIncludesHealth(reqs[s])
        /\ reqs[s].slow # NoValue /\ reqs[s].slow.delay = speedLimiter.maxDelayMs
        /\ reqs[s].slow.after.totalHits = reqs[s].slow.before.totalHits + 1

\* the delay of one 100 ms step per request past delayAfter, capped
StepDelay(used) ==
    IF used <= speedLimiter.delayAfter THEN 0
    ELSE Min((used - speedLimiter.delayAfter) * 100, speedLimiter.maxDelayMs)

\* C14: the speed limiter refuses no request; a request counted as one of
\* the first delayAfter of its window is not delayed, and a later one is
\* delayed by 100 ms for each request past delayAfter, at most maxDelayMs.
C14_LinearDelay ==
    \A s \in Slots :
        LET r == reqs[s]
        IN  Slowed(r) =>
                /\ r.rejectedBy # "speed"
                /\ r.slow.delay = StepDelay(r.slow.after.totalHits)

\* the part of C14 that holds: no refusal, no delay up to delayAfter, never
\* more than maxDelayMs, and the request goes on once the delay is over
C14_DelayCapped ==
    \A s \in Slots :
        LET r == reqs[s]
        IN  Slowed(r) =>
                /\ r.rejectedBy # "speed"
                /\ r.slow.after.totalHits <= speedLimiter.delayAfter => r.slow.delay = 0
                /\ r.slow.delay >= 0 /\ r.slow.delay <= speedLimiter.maxDelayMs
                /\ r.pc = "delayed" <=> r.slow.delay > 0 /\ r.next = 2
                /\ Done(r) => r.res.status # 429

\* the first request past delayAfter was held back for maxDelayMs
C14_WitnessJump ==
    \E s \in Slots :
        /\ Slowed(reqs[s])
        /\ reqs[s].slow.after.totalHits = speedLimiter.delayAfter + 1
        /\ reqs[s].slow.delay = speedLimiter.maxDelayMs
        /\ Done(reqs[s]) /\ reqs[s].res.status = 200

----------------------------------------------------------------------------
(* SimpleCache and invalidateCache called directly *)

\* calls of one behaviour
MaxCalls == 4

\* the keys cacheMiddleware gives the three cached routes
UserKey == <<"GET", "/api/v1/users", <<"2">>, "{}">>

CacheKeys == {HealthKey, BusyKey, UserKey}

\* patterns: the one the controllers pass, one for the health check, and
\* the one that matches every key
Patterns == {"users*", "health*", "*"}

\* the resource a pattern names is the one of the key's URL
Matches(key, pattern) ==
    CASE pattern = "*" -> TRUE
      [] pattern = "users*" -> key[2] = "/api/v1/users"
      [] pattern = "health*" -> key[2] = "/api/v1/health"

\* the instants around the end of a ttl of 30 s that starts at 0
SimpleTimes == {0, 29999, 30000, 30001}

KeysOf(c) == {c[i].key : i \in 1..Len(c)}

\* the key inserted earliest among those of a non-empty cache
Earliest(c, born) == CHOOSE k \in KeysOf(c) : \A k2 \in KeysOf(c) : born[k] <= born[k2]

ProbeStart ==
    [op |-> "none", key |-> NoValue, pattern |-> "", at |-> 0, before |-> <<>>, out |-> NoValue,
     born |-> [k \in CacheKeys |-> 0], born0 |-> [k \in CacheKeys |-> 0], lastHit |-> {},
     calls |-> 0]

InitSimple ==
    /\ now = 0
    /\ users = SeedUsers
    /\ nextId = 3
    /\ cache = <<>>
    /\ hits = SeedHits
    /\ reqs = [s \in Slots |-> Idle]
    /\ issued = {SeedToken(1), SeedToken(2)}
    /\ stored = {}
    /\ dbVer = 3
    /\ doneVer = 0
    /\ arrivals = 0
    /\ gate = GateIdle
    /\ rl = RlIdle
    /\ probe = ProbeStart

\* a call changes the cache and the record of the last call only
CallDone(op, k, pattern, c1, out, born1) ==
    /\ cache' = c1
    /\ probe' = [op |-> op, key |-> k, pattern |-> pattern, at |-> now, before |-> cache, out |-> out,
                  born |-> born1, born0 |-> probe.born,
                  lastHit |-> IF op = "get" /\ out # NoValue THEN {k} ELSE probe.lastHit,
                  calls |-> probe.calls + 1]
    /\ UNCHANGED <<now, users, nextId, hits, reqs, issued, stored, dbVer, doneVer, arrivals, gate, rl>>

\* cache.set(key, data, 30)
CallSet(k) ==
    /\ probe.calls < MaxCalls
    /\ LET c1 == CacheSet(cache, k, [n |-> probe.calls + 1], 30, now)
           anew == ~HasKey(cache, k) \/ (Len(cache) >= maxSize /\ k = Earliest(cache, probe.born))
       IN  CallDone("set", k, "", c1, NoValue,
                    [x \in CacheKeys |-> IF x = k THEN (IF anew THEN probe.calls + 1 ELSE probe.born[x])
                                          ELSE IF HasKey(c1, x) THEN probe.born[x] ELSE 0])

\* cache.get(key)
CallGet(k) ==
    /\ probe.calls < MaxCalls
    /\ LET got == CacheGet(cache, k, now)
       IN  CallDone("get", k, "", got.cache, got.data,
                    [x \in CacheKeys |-> IF HasKey(got.cache, x) THEN probe.born[x] ELSE 0])

\* cache.delete(key)
CallDelete(k) ==
    /\ probe.calls < MaxCalls
    /\ CallDone("delete", k, "", Without(cache, k), NoValue, [probe.born EXCEPT ![k] = 0])

\* cache.clear()
CallClear ==
    /\ probe.calls < MaxCalls
    /\ CallDone("clear", NoValue, "", <<>>, NoValue, [k \in CacheKeys |-> 0])

\* invalidateCache(pattern)
CallInvalidate(pattern) ==
    /\ probe.calls < MaxCalls
    /\ LET c1 == invalidateCache(cache, pattern)
       IN  CallDone("invalidate", NoValue, pattern, c1, NoValue,
                    [x \in CacheKeys |-> IF HasKey(c1, x) THEN probe.born[x] ELSE 0])

NextSimple ==
    \/ \E k \in CacheKeys : CallSet(k)
    \/ \E k \in CacheKeys : CallGet(k)
    \/ \E k \in CacheKeys : CallDelete(k)
    \/ CallClear
    \/ \E p \in Patterns : CallInvalidate(p)
    \/ Tick(SimpleTimes)

SpecSimple == InitSimple /\ [][NextSimple]_vars

\* C15: after invalidateCache(pattern), whatever the pattern and the cache,
\* no entry whose key matches the pattern is left.
C15_NoMatchLeft ==
    probe.op = "invalidate" => \A i \in 1..Len(cache) : ~Matches(cache[i].key, probe.pattern)

\* the part of C15 that holds: the pattern the controllers pass leaves
\* nothing at all
C15_UsersPatternClears ==
    probe.op = "invalidate" /\ probe.pattern = "users*" => cache = <<>>

\* invalidateCache('users*') emptied a cache that held a user entry and the
\* health entry
C15_WitnessOverMatch ==
    /\ probe.op = "invalidate" /\ probe.pattern = "users*"
    /\ HasKey(probe.before, HealthKey) /\ HasKey(probe.before, BusyKey)
    /\ cache = <<>>

\* invalidateCache('health*') left the health entry where it was
C15_WitnessUnderMatch ==
    /\ probe.op = "invalidate" /\ probe.pattern = "health*"
    /\ HasKey(probe.before, HealthKey)
    /\ HasKey(cache, HealthKey)

\* milliseconds between the store of the entry a get looked for and the get
Age(p) == p.at - EntryOf(p.before, p.key).timestamp

\* C16: a get of an entry stored ttl milliseconds ago or earlier, the
\* instant where exactly ttl has passed included, is a miss.
C16_MissFromTtlOn ==
    probe.op = "get" /\ HasKey(probe.before, probe.key)
        /\ Age(probe) >= EntryOf(probe.before, probe.key).ttl => probe.out = NoValue

\* what the code does: a miss, with the entry removed, only once more than
\* ttl has passed, a hit that leaves the cache as it was until then
C16_MissAfterTtl ==
    probe.op = "get" =>
        IF ~HasKey(probe.before, probe.key) THEN probe.out = NoValue /\ cache = probe.before
        ELSE IF Age(probe) > EntryOf(probe.before, probe.key).ttl
        THEN probe.out = NoValue /\ ~HasKey(cache, probe.key)
        ELSE probe.out = EntryOf(probe.before, probe.key).data /\ cache = probe.before

\* a get exactly ttl after the store was a hit
C16_WitnessHitAtTtl ==
    /\ probe.op = "get" /\ HasKey(probe.before, probe.key)
    /\ Age(probe) = EntryOf(probe.before, probe.key).ttl
    /\ probe.out # NoValue

\* a get one millisecond later was a miss
C16_WitnessMissAfter ==
    /\ probe.op = "get" /\ HasKey(probe.before, probe.key)
    /\ Age(probe) = EntryOf(probe.before, probe.key).ttl + 1
    /\ probe.out = NoValue /\ ~HasKey(cache, probe.key)

\* C17: the cache never holds more than maxSize entries nor a key twice;
\* a set at capacity removes the key inserted earliest among those present,
\* whatever has been read since, and nothing else, and then holds the new
\* entry; a set below capacity removes nothing.
C17_CapacityAndOrder ==
    /\ Len(cache) <= maxSize
    /\ Cardinality(KeysOf(cache)) = Len(cache)
    /\ probe.op = "set" =>
            /\ HasKey(cache, probe.key)
            /\ EntryOf(cache, probe.key).data = [n |-> probe.calls]
            /\ IF Len(probe.before) >= maxSize
               THEN LET oldest == Earliest(probe.before, probe.born0)
                    IN  /\ KeysOf(probe.before) \ KeysOf(cache) \subseteq {oldest}
                        /\ oldest # probe.key => ~HasKey(cache, oldest)
                        /\ oldest = probe.key => cache[Len(cache)].key = probe.key
               ELSE KeysOf(cache) = KeysOf(probe.before) \cup {probe.key}

\* a set at capacity evicted the key inserted first although it was the one
\* read last
C17_Witness ==
    /\ probe.op = "set" /\ Len(probe.before) >= maxSize /\ Len(probe.before) > 1
    /\ ~HasKey(probe.before, probe.key)
    /\ probe.lastHit = {Earliest(probe.before, probe.born0)}
    /\ probe.lastHit \cap KeysOf(cache) = {}
    /\ Len(cache) = maxSize

\* a set at capacity of a key already present, not the earliest, replaced
\* its entry where it was and still evicted the earliest
C17_WitnessUpdate ==
    /\ probe.op = "set" /\ Len(probe.before) >= maxSize
    /\ HasKey(probe.before, probe.key)
    /\ probe.key # Earliest(probe.before, probe.born0)
    /\ Len(cache) = maxSize - 1

----------------------------------------------------------------------------
(* What is written to the response cache *)

\* the request neither looked the cache up nor prepared or made a write
CacheUntouched(r) == ~r.cacheRead /\ ~r.cacheWrite /\ r.intercept = NoValue

\* C18 as stated: a request that is not a GET never touches the cache, and
\* a GET answered with a status outside 200..299 has written nothing.
C18_WrittenOnlyFor2xxGet ==
    \A s \in Slots :
        LET r == reqs[s]
        IN  /\ Started(r) /\ Method(r.route) # "GET" => CacheUntouched(r)
            /\ Done(r) /\ ~(r.res.status >= 200 /\ r.res.status < 300) => ~r.cacheWrite

\* C18, amended: a request that is not a GET never touches the cache; a GET
\* writes the cache only with the body its handler passed to res.json with a
\* status in 200..299, after a miss of its own key; the status sent is that
\* status, or 304 when the request's If-None-Match is the validator of the
\* body just stored.
C18_WrittenOnlyFor2xxJson ==
    \A s \in Slots :
        LET r == reqs[s]
        IN  /\ Started(r) /\ Method(r.route) # "GET" => CacheUntouched(r)
            /\ Done(r) /\ ~(r.res.jsonStatus >= 200 /\ r.res.jsonStatus < 300) => ~r.cacheWrite
            /\ Done(r) /\ r.cacheWrite =>
                    /\ Method(r.route) = "GET" /\ r.handler /\ r.intercept # NoValue
                    /\ r.res.xCache = "MISS"
                    /\ r.res.status = (IF r.ifNoneMatch = r.res.etag THEN 304 ELSE r.res.jsonStatus)

\* a GET that missed was answered 404 and wrote nothing
C18_Witness ==
    \E s \in Slots :
        /\ Done(reqs[s]) /\ Method(reqs[s].route) = "GET" /\ reqs[s].intercept # NoValue
        /\ reqs[s].res.status = 404 /\ ~reqs[s].cacheWrite
        /\ ~HasKey(cache, CacheKey(reqs[s]))

\* a PUT was answered 200 without touching the cache except to invalidate it
C18_WitnessPut ==
    \E s \in Slots :
        /\ Done(reqs[s]) /\ reqs[s].route = "PUT /users/:id" /\ reqs[s].res.status = 200
        /\ CacheUntouched(reqs[s])

\* a GET answered 304 had written the cache
C18_WitnessNotModifiedWrite ==
    \E s \in Slots :
        /\ Done(reqs[s]) /\ reqs[s].res.status = 304 /\ reqs[s].cacheWrite
        /\ HasKey(cache, CacheKey(reqs[s]))

----------------------------------------------------------------------------
(* Refresh: the second user refreshes its token and presents old and new   *)
(* tokens around their expiries                                            *)

\* requests of one behaviour
MaxArrivalsRefresh == 3

\* requests in flight at once in the behaviours of refresh
MaxInflightRefresh == 1

\* one and two seconds after the login, the expiry of the tokens issued at
\* 0, and the expiry of a token issued at one second
RefreshTimes == {1000, 2000, 604800000, 604801000}

RefreshRoutes == {"POST /auth/refresh", "GET /auth/profile"}

\* the second user presents any token it was ever issued
ArriveRefresh ==
    \E s \in Slots, route \in RefreshRoutes, tok \in {x \in issued : x.userId = 2} :
        Arrive(s, route, <<>>, "10.0.0.1", <<"Bearer", tok>>, NoValue, EmptyBody,
               MaxArrivalsRefresh, MaxInflightRefresh, TRUE)

InitRefresh == SeededInit

NextRefresh ==
    \/ ArriveRefresh
    \/ \E s \in Slots : AuthLookup(s)
    \/ DeactivateUser(2)
    \/ Tick(RefreshTimes)

SpecRefresh == InitRefresh /\ [][NextRefresh]_vars

\* the token has not reached its own expiry at t
Unexpired(token, t) == (t \div 1000) < token.exp

\* a refresh that was answered 200
Refreshed(r) == Done(r) /\ r.route = "POST /auth/refresh" /\ r.res.status = 200

\* C19: every token ever issued to a principal, presented before its own
\* expiry, passes verification however many tokens were issued after it, and
\* the request is authenticated as that principal when the principal is
\* active at the lookup; a refresh answers with a new token of the
\* authenticated principal, issued at the instant of the refresh and valid
\* for JWT_EXPIRES_IN from then, and what an authentication decides is a
\* function of the token, the clock and the principal's record alone.
C19_RefreshKeepsTokensValid ==
    \A s \in Slots :
        LET r == reqs[s]
            token == BearerToken(r.authHeader)
        IN  /\ Started(r) /\ token \in issued /\ r.rejectedBy # "general" =>
                    /\ Unexpired(token, r.t0) <=> r.decoded = token
                    /\ Unexpired(token, r.t0) /\ r.looked /\ ~r.goneAtLookup =>
                            /\ r.user # NoValue /\ r.user.id = token.userId
                            /\ r.rejectedBy # "authn"
                            /\ Done(r) => r.res.status = 200
            /\ Refreshed(r) =>
                    LET new == r.res.body.data
                    IN  /\ new \in issued /\ token \in issued
                        /\ new.userId = r.user.id /\ new.userId = token.userId
                        /\ new.exp = new.iat + JWT_EXPIRES_IN
                        /\ new.iat >= r.t0 \div 1000
                        /\ verifyToken(new, new.iat * 1000).ok

\* the token of the login was accepted after a refresh had issued a newer one
C19_Witness ==
    \E s \in Slots :
        /\ Done(reqs[s]) /\ reqs[s].res.status = 200
        /\ BearerToken(reqs[s].authHeader) = SeedToken(2)
        /\ \E x \in issued : x.userId = 2 /\ x.iat > 0 /\ x.iat < reqs[s].t0 \div 1000

\* a refreshed token was accepted after the token of the login had expired
C19_WitnessNewOutlivesOld ==
    \E s \in Slots :
        /\ Done(reqs[s]) /\ reqs[s].res.status = 200
        /\ BearerToken(reqs[s].authHeader).iat > 0
        /\ ~Unexpired(SeedToken(2), reqs[s].t0)

\* a token obtained by refreshing with a refreshed token
C19_WitnessTwice ==
    \E s \in Slots :
        /\ Refreshed(reqs[s])
        /\ BearerToken(reqs[s].authHeader).iat > 0
        /\ reqs[s].res.body.data.iat > BearerToken(reqs[s].authHeader).iat

\* an unexpired token of the deactivated principal was refused
C19_WitnessInactive ==
    \E s \in Slots :
        /\ Done(reqs[s]) /\ reqs[s].res.status = 401 /\ reqs[s].goneAtLookup
        /\ Unexpired(BearerToken(reqs[s].authHeader), reqs[s].t0)

----------------------------------------------------------------------------
(* Start of the process: the configuration module is evaluated, then the   *)
(* server listens and signs tokens with CONFIG.JWT_SECRET                  *)

\* the fallback of CONFIG.JWT_SECRET
FallbackSecret == "your-fallback-secret-for-dev-only"

\* a variable of process.env is <<>> when unset and <<value>> when set
EnvNodeEnv == {<<>>, <<"">>, <<"development">>, <<"test">>, <<"production">>}

EnvJwtSecret == {<<>>, <<"">>, <<FallbackSecret>>, <<"s3cret">>}

EnvDatabaseUrl == {<<>>, <<"">>, <<"postgres://db/prod">>}

\* !process.env[varName]: undefined and '' are falsy
Falsy(e) == e = <<>> \/ e[1] = ""

\* process.env.X || fallback
OrElse(e, fallback) == IF Falsy(e) THEN fallback ELSE e[1]

\* the configuration module without the comparison with the fallback
LoadConfigMissingOnly(env) ==
    LET CONFIG == [NODE_ENV |-> OrElse(env.NODE_ENV, "development"),
                   DATABASE_URL |-> OrElse(env.DATABASE_URL, "file:./dev.db"),
                   JWT_SECRET |-> OrElse(env.JWT_SECRET, FallbackSecret)]
        isProduction == CONFIG.NODE_ENV = "production"
        missingVars == SelectSeq(<<"DATABASE_URL", "JWT_SECRET">>, LAMBDA varName : Falsy(env[varName]))
    IN  IF isProduction /\ Len(missingVars) > 0
        THEN [threw |-> TRUE, error |-> "Missing required environment variables", missing |-> missingVars,
              CONFIG |-> CONFIG]
        ELSE [threw |-> FALSE, error |-> "", missing |-> <<>>, CONFIG |-> CONFIG]

\* the module config/index.ts: CONFIG with its fallbacks, then the checks made
\* when NODE_ENV is 'production'
LoadConfig(env) ==
    LET CONFIG == [NODE_ENV |-> OrElse(env.NODE_ENV, "development"),
                   DATABASE_URL |-> OrElse(env.DATABASE_URL, "file:./dev.db"),
                   JWT_SECRET |-> OrElse(env.JWT_SECRET, FallbackSecret)]
        isProduction == CONFIG.NODE_ENV = "production"
        missingVars == SelectSeq(<<"DATABASE_URL", "JWT_SECRET">>, LAMBDA varName : Falsy(env[varName]))
    IN  IF isProduction /\ Len(missingVars) > 0
        THEN [threw |-> TRUE, error |-> "Missing required environment variables", missing |-> missingVars,
              CONFIG |-> CONFIG]
        ELSE IF isProduction /\ CONFIG.JWT_SECRET = FallbackSecret
        THEN [threw |-> TRUE, error |-> "JWT_SECRET must be set in production", missing |-> <<>>,
              CONFIG |-> CONFIG]
        ELSE [threw |-> FALSE, error |-> "", missing |-> <<>>, CONFIG |-> CONFIG]

\* node starts index.ts with some environment; nothing is imported yet
InitConfig ==
    /\ now = 0
    /\ users = SeedUsers
    /\ nextId = 3
    /\ cache = <<>>
    /\ hits = EmptyHits
    /\ reqs = [s \in Slots |-> Idle]
    /\ issued = {}
    /\ stored = {}
    /\ dbVer = 3
    /\ doneVer = 0
    /\ arrivals = 0
    /\ gate = GateIdle
    /\ rl = RlIdle
    /\ \E n \in EnvNodeEnv, j \in EnvJwtSecret, d \in EnvDatabaseUrl :
            probe = [op |-> "boot", phase |-> "start",
                     env |-> [NODE_ENV |-> n, JWT_SECRET |-> j, DATABASE_URL |-> d],
                     loaded |-> NoValue, signedWith |-> {}]

\* import { CONFIG } from './config': an exception thrown by the module ends
\* the process before index.ts runs any further
ImportConfig ==
    /\ probe.op = "boot" /\ probe.phase = "start"
    /\ LET out == LoadConfig(probe.env)
       IN  probe' = [probe EXCEPT !.phase = IF out.threw THEN "crashed" ELSE "configured", !.loaded = out]
    /\ UNCHANGED <<now, users, nextId, cache, hits, reqs, issued, stored, dbVer, doneVer, arrivals, gate, rl>>

\* app.listen(CONFIG.PORT)
Listen ==
    /\ probe.op = "boot" /\ probe.phase = "configured"
    /\ probe' = [probe EXCEPT !.phase = "listening"]
    /\ UNCHANGED <<now, users, nextId, cache, hits, reqs, issued, stored, dbVer, doneVer, arrivals, gate, rl>>

\* a login or a registration is served: jwt.sign(payload, CONFIG.JWT_SECRET)
SignFirstToken ==
    /\ probe.op = "boot" /\ probe.phase = "listening" /\ probe.signedWith = {}
    /\ probe' = [probe EXCEPT !.signedWith = {probe.loaded.CONFIG.JWT_SECRET}]
    /\ issued' = {SeedToken(1)}
    /\ UNCHANGED <<now, users, nextId, cache, hits, reqs, stored, dbVer, doneVer, arrivals, gate, rl>>

NextConfig ==
    \/ ImportConfig
    \/ Listen
    \/ SignFirstToken

SpecConfig == InitConfig /\ [][NextConfig]_vars

\* NODE_ENV is 'production' and JWT_SECRET is unset, empty or the fallback
InsecureProduction(env) ==
    /\ env.NODE_ENV = <<"production">>
    /\ env.JWT_SECRET \in {<<>>, <<"">>, <<FallbackSecret>>}

\* C20: when NODE_ENV is 'production' and JWT_SECRET is unset, empty or the
\* fallback, the evaluation of the configuration module throws, and the
\* process neither listens nor signs a token.
C20_InsecureProductionThrows ==
    probe.op = "boot" /\ InsecureProduction(probe.env) =>
        /\ probe.phase \in {"start", "crashed"}
        /\ probe.phase = "crashed" => probe.loaded.threw
        /\ probe.signedWith = {} /\ issued = {}

\* the fallback given as the value of JWT_SECRET in production ended the process
C20_Witness ==
    /\ probe.op = "boot" /\ probe.phase = "crashed"
    /\ probe.env.NODE_ENV = <<"production">>
    /\ probe.env.JWT_SECRET = <<FallbackSecret>>
    /\ probe.env.DATABASE_URL = <<"postgres://db/prod">>
    /\ probe.loaded.error = "JWT_SECRET must be set in production"

\* an unset secret in production ended the process
C20_WitnessUnset ==
    /\ probe.op = "boot" /\ probe.phase = "crashed"
    /\ probe.env.NODE_ENV = <<"production">> /\ probe.env.JWT_SECRET = <<>>
    /\ probe.loaded.missing # <<>>

\* a production process with a secret of its own signed a token
C20_WitnessSecure ==
    /\ probe.op = "boot" /\ probe.phase = "listening"
    /\ probe.env.NODE_ENV = <<"production">> /\ probe.signedWith = {"s3cret"}

\* a development process signed a token with the fallback
C20_WitnessDevelopment ==
    /\ probe.op = "boot" /\ probe.phase = "listening"
    /\ probe.env.NODE_ENV # <<"production">> /\ probe.signedWith = {FallbackSecret}

----------------------------------------------------------------------------
(* The key of a client in the stores of the limiters: the administrator at *)
(* two addresses, the second user and a stranger at the first              *)

\* requests of one behaviour
MaxArrivalsKey == 2

\* requests in flight at once in the behaviours of the keys
MaxInflightKey == 2

KeyClients ==
    {[ip |-> "10.0.0.1", authHeader |-> <<"Bearer", SeedToken(1)>>],
     [ip |-> "10.0.0.2", authHeader |-> <<"Bearer", SeedToken(1)>>],
     [ip |-> "10.0.0.1", authHeader |-> <<"Bearer", SeedToken(2)>>],
     [ip |-> "10.0.0.1", authHeader |-> <<>>]}

KeyRoutes == {"POST /users", "PUT /users/:id", "GET /auth/profile"}

\* a creation without a body, a change of the name of the second user, or a
\* look at one's profile
ArriveKey ==
    \E s \in Slots, route \in KeyRoutes, c \in KeyClients :
        Arrive(s, route, IF HasIdParam(route) THEN <<"2">> ELSE <<>>, c.ip, c.authHeader, NoValue,
               IF route = "PUT /users/:id" THEN [name |-> "Al", email |-> "", password |-> ""] ELSE EmptyBody,
               MaxArrivalsKey, MaxInflightKey, TRUE)

InitKey == SeededInit

NextKey ==
    \/ ArriveKey
    \/ \E s \in Slots : AuthLookup(s)
    \/ \E s \in Slots : UpdateFind(s)
    \/ \E s \in Slots : UpdateWrite(s)
    \/ \E s \in Slots : UpdateSend(s)

SpecKey == InitKey /\ [][NextKey]_vars

\* the key the claim gives a request that a tier counts: the id of its
\* principal when it carries one, its address otherwise
ClientKey(r) == IF r.user # NoValue THEN [principal |-> r.user.id] ELSE [address |-> r.ip]

\* the tier counted both requests
BothCounted(r1, r2, n) == Done(r1) /\ Done(r2) /\ n \in r1.counted /\ n \in r2.counted

\* C21 as stated: the user-modification tier, which runs after the
\* authentication gate, counts a request under the id of its principal; so
\* two requests of one principal that it counted saw different counts,
\* whatever their addresses. The general tier, which runs before any
\* principal is attached, counts under the address.
C21_KeyIsPrincipalElseAddress ==
    \A s1, s2 \in Slots :
        LET r1 == reqs[s1]
            r2 == reqs[s2]
        IN  /\ Started(r1) /\ "general" \in r1.counted => r1.rlSeen["general"].key = [address |-> r1.ip]
            /\ Started(r1) /\ "userModification" \in r1.counted =>
                    r1.rlSeen["userModification"].key = ClientKey(r1)
            /\ s1 # s2 /\ BothCounted(r1, r2, "userModification") /\ r1.user = r2.user =>
                    r1.rlSeen["userModification"].after.totalHits
                        # r2.rlSeen["userModification"].after.totalHits

\* what the limiters do: every tier counts every request under its address,
\* so two requests from one address that a tier counted saw different counts,
\* whatever their principals
C21_KeyIsAddress ==
    \A s1, s2 \in Slots, n \in TierNames :
        LET r1 == reqs[s1]
            r2 == reqs[s2]
        IN  /\ Started(r1) /\ n \in r1.counted =>
                    /\ r1.rlSeen[n].key = [address |-> r1.ip]
                    /\ hits[n][r1.ip] # NoValue
            /\ s1 # s2 /\ BothCounted(r1, r2, n) /\ r1.ip = r2.ip =>
                    r1.rlSeen[n].after.totalHits # r2.rlSeen[n].after.totalHits

\* the administrator's two modifications, from two addresses, were each
\* counted as the first of their window
C21_WitnessOnePrincipalTwoCounters ==
    \E s1, s2 \in Slots :
        /\ s1 # s2 /\ BothCounted(reqs[s1], reqs[s2], "userModification")
        /\ reqs[s1].user # NoValue /\ reqs[s1].user = reqs[s2].user
        /\ reqs[s1].ip # reqs[s2].ip
        /\ reqs[s1].rlSeen["userModification"].after.totalHits = 1
        /\ reqs[s2].rlSeen["userModification"].after.totalHits = 1

\* two principals at one address were counted on one counter
C21_WitnessTwoPrincipalsOneCounter ==
    \E s1, s2 \in Slots :
        /\ s1 # s2 /\ BothCounted(reqs[s1], reqs[s2], "userModification")
        /\ reqs[s1].user # NoValue /\ reqs[s2].user # NoValue /\ reqs[s1].user.id # reqs[s2].user.id
        /\ reqs[s1].ip = reqs[s2].ip
        /\ reqs[s2].rlSeen["userModification"].after.totalHits = 2

----------------------------------------------------------------------------
(* Creation and registration with a new or a taken email, two at a time    *)

\* requests of one behaviour
MaxArrivalsCreate == 2

CreateRoutes == {"POST /users", "POST /auth/register"}

\* the email of the second user, and one that no user has
CreateEmails == {"b@x.io", "c@x.io"}

\* the administrator creates a user, or a stranger registers
ArriveCreate ==
    \E s \in Slots, route \in CreateRoutes, e \in CreateEmails :
        Arrive(s, route, <<>>, "10.0.0.2",
               IF route = "POST /users" THEN <<"Bearer", SeedToken(1)>> ELSE <<>>, NoValue,
               [name |-> "Cy", email |-> e, password |-> IF route = "POST /users" THEN "" ELSE "pw3"],
               MaxArrivalsCreate, MaxInflight, TRUE)

InitCreate == SeededInit

NextCreate ==
    \/ ArriveCreate
    \/ \E s \in Slots : AuthLookup(s)
    \/ \E s \in Slots : CreateCheck(s)
    \/ \E s \in Slots : CreateWrite(s)
    \/ \E s \in Slots : CreateSend(s)
    \/ \E s \in Slots : RegisterFind(s)
    \/ \E s \in Slots : RegisterCreate(s)
    \/ \E s \in Slots : RegisterSend(s)

SpecCreate == InitCreate /\ [][NextCreate]_vars

\* the handler of a creating route has answered
Created(r) == Done(r) /\ r.route \in CreateRoutes /\ r.handler

\* the ids of the users with the email
Holders(e) == {i \in DOMAIN users : users[i] # NoValue /\ users[i].email = e}

\* the answers allowed to the requests on the routes: 201 with the email held
\* by one user, or 409 with the message; 409 for the email of the second
\* user; and of two requests with one email, at most one 201
DuplicateAnswered(routes) ==
    /\ \A s \in Slots :
        LET r == reqs[s]
        IN  Created(r) /\ r.route \in routes =>
                /\ r.res.status \in {201, 409}
                /\ r.body.email = "b@x.io" => r.res.status = 409
                /\ r.res.status = 409 => r.res.body.message = "User with this email already exists"
                /\ Cardinality(Holders(r.body.email)) = 1
    /\ \A s1, s2 \in Slots :
        s1 # s2 /\ Created(reqs[s1]) /\ Created(reqs[s2]) /\ reqs[s1].body.email = reqs[s2].body.email
            /\ reqs[s1].route \in routes =>
                ~(reqs[s1].res.status = 201 /\ reqs[s2].res.status = 201)

\* C22 as stated: on both creating routes, a taken email is answered 409 with
\* the message and the store keeps one user per email, under every
\* interleaving; of two requests with the same new email one gets 201 and the
\* other 409.
C22_DuplicateEmail409 == DuplicateAnswered(CreateRoutes)

\* what holds: the claim for POST /users; a registration that loses the race
\* is refused by the store and no email is ever held twice
C22_ApiCreate409 ==
    /\ DuplicateAnswered({"POST /users"})
    /\ \A e \in CreateEmails : Cardinality(Holders(e)) <= 1
    /\ \A s \in Slots : Created(reqs[s]) => reqs[s].res.status \in {201, 409, 500}

\* of two concurrent registrations with the same new email, one was answered
\* 201 and the other 500
C22_WitnessRegisterRace ==
    \E s1, s2 \in Slots :
        /\ Created(reqs[s1]) /\ Created(reqs[s2])
        /\ reqs[s1].route = "POST /auth/register" /\ reqs[s2].route = "POST /auth/register"
        /\ reqs[s1].body.email = "c@x.io" /\ reqs[s2].body.email = "c@x.io"
        /\ reqs[s1].res.status = 201 /\ reqs[s2].res.status = 500

\* of two concurrent creations with the same new email, one was answered 201
\* and the other 409
C22_WitnessCreateRace ==
    \E s1, s2 \in Slots :
        /\ Created(reqs[s1]) /\ Created(reqs[s2])
        /\ reqs[s1].route = "POST /users" /\ reqs[s2].route = "POST /users"
        /\ reqs[s1].body.email = "c@x.io" /\ reqs[s2].body.email = "c@x.io"
        /\ reqs[s1].res.status = 201 /\ reqs[s2].res.status = 409

----------------------------------------------------------------------------
(* Updates and deletions of the second user and of a user that never was,  *)
(* two at a time, sent by the administrator                                *)

\* requests of one behaviour
MaxArrivalsMissing == 2

MissingRoutes == {"PUT /users/:id", "DELETE /users/:id"}

\* the id of the second user, and one that no user has
MissingIds == {"2", "3"}

ArriveMissing ==
    \E s \in Slots, route \in MissingRoutes, id \in MissingIds :
        Arrive(s, route, <<id>>, "10.0.0.2", <<"Bearer", SeedToken(1)>>, NoValue,
               IF route = "PUT /users/:id" THEN [name |-> "Al", email |-> "", password |-> ""] ELSE EmptyBody,
               MaxArrivalsMissing, MaxInflight, TRUE)

InitMissing == SeededInit

NextMissing ==
    \/ ArriveMissing
    \/ \E s \in Slots : AuthLookup(s)
    \/ \E s \in Slots : UpdateFind(s)
    \/ \E s \in Slots : UpdateWrite(s)
    \/ \E s \in Slots : UpdateSend(s)
    \/ \E s \in Slots : DeleteFind(s)
    \/ \E s \in Slots : DeleteWrite(s)
    \/ \E s \in Slots : DeleteSend(s)

SpecMissing == InitMissing /\ [][NextMissing]_vars

\* the handler of an update or a deletion has answered
Mutated(r) == Done(r) /\ r.route \in MissingRoutes /\ r.handler

\* C23 as stated: an update or a deletion answers 200 or, when the user does
\* not exist at the check or is gone at the write, 404 'User not found'
\* without invalidating or writing the cache; the id that no user has is
\* always answered 404.
C23_MissingIs404 ==
    \A s \in Slots :
        LET r == reqs[s]
        IN  Mutated(r) =>
                /\ r.res.status \in {200, 404}
                /\ r.idParam = <<"3">> => r.res.status = 404
                /\ r.res.status = 404 =>
                        /\ r.res.body.message = "User not found"
                        /\ ~r.invalidated /\ ~r.cacheWrite

\* what holds: the claim for a user missing at the existence check; a user
\* deleted between the check and the write is answered 500, also without
\* touching the cache
C23_MissingAtCheckIs404 ==
    \A s \in Slots :
        LET r == reqs[s]
        IN  Mutated(r) =>
                /\ r.res.status \in {200, 404, 500}
                /\ r.idParam = <<"3">> => r.res.status = 404
                /\ r.res.status = 404 => r.res.body.message = "User not found"
                /\ r.res.status # 200 => ~r.invalidated /\ ~r.cacheWrite
                /\ r.res.status = 500 => users[parseInt(r.idParam)] = NoValue

\* of two concurrent deletions of the second user, one was answered 200 and
\* the other 500
C23_WitnessDeleteRace ==
    \E s1, s2 \in Slots :
        /\ Mutated(reqs[s1]) /\ Mutated(reqs[s2])
        /\ reqs[s1].route = "DELETE /users/:id" /\ reqs[s2].route = "DELETE /users/:id"
        /\ reqs[s1].res.status = 200 /\ reqs[s2].res.status = 500

\* an update whose user was deleted after its existence check was answered 500
C23_WitnessUpdateRace ==
    \E s \in Slots :
        /\ Mutated(reqs[s]) /\ reqs[s].route = "PUT /users/:id" /\ reqs[s].res.status = 500

\* a deletion of the id that no user has was answered 404
C23_WitnessMissing ==
    \E s \in Slots :
        /\ Mutated(reqs[s]) /\ reqs[s].idParam = <<"3">> /\ reqs[s].res.status = 404

----------------------------------------------------------------------------
(* Entries stored after the invalidation that should have outdated them *)

\* the entry holds a payload read before a mutation that has completed
StaleEntry(e) == e.data.data.ver < doneVer

\* C24 as stated: under every interleaving, the cache holds no payload read
\* before a mutation that has completed, and no GET that arrived after the
\* completion of a mutation is served such a payload from the cache.
C24_NoStaleVisible ==
    /\ \A i \in 1..Len(cache) : ~StaleEntry(cache[i])
    /\ \A s \in Slots :
        LET r == reqs[s]
        IN  Done(r) /\ Method(r.route) = "GET" /\ r.res.xCache = "HIT" /\ r.res.status = 200 =>
                r.res.body.data.ver >= r.ver0

\* what holds: a GET that reaches its handler after a completed mutation is
\* answered with data read after it
C24_HandlerReadsFresh ==
    \A s \in Slots :
        LET r == reqs[s]
        IN  Done(r) /\ r.route = "GET /users" /\ r.res.status = 200 /\ r.res.xCache = "MISS" /\ r.handler =>
                r.res.body.data.ver >= r.ver0

\* the cache holds a payload read before a completed update, stored by a
\* request that was in flight when the update invalidated the cache
C24_WitnessStoredAfterInvalidation ==
    /\ \E i \in 1..Len(cache) : StaleEntry(cache[i])
    /\ \E x \in stored : x.data.data.ver < doneVer /\ ~x.evicted

----------------------------------------------------------------------------
(* Changes of user records and the cached list, one request at a time: the  *)
(* administrator lists and renames, a stranger registers, the second user  *)
(* is deactivated through authService                                      *)

\* requests of one behaviour
MaxArrivalsInval == 3

\* requests in flight at once in the behaviours of invalidation
MaxInflightInval == 1

InvalRoutes == {"GET /users", "PUT /users/:id", "POST /auth/register"}

ArriveInval ==
    \E s \in Slots, route \in InvalRoutes :
        Arrive(s, route, IF HasIdParam(route) THEN <<"2">> ELSE <<>>,
               IF route = "POST /auth/register" THEN "10.0.0.3" ELSE "10.0.0.2",
               IF route = "POST /auth/register" THEN <<>> ELSE <<"Bearer", SeedToken(1)>>, NoValue,
               CASE route = "PUT /users/:id" -> [name |-> "Al", email |-> "", password |-> ""]
                 [] route = "POST /auth/register" -> [name |-> "Cy", email |-> "c@x.io", password |-> "pw3"]
                 [] OTHER -> EmptyBody,
               MaxArrivalsInval, MaxInflightInval, FALSE)

InitInval == SeededInit

NextInval ==
    \/ ArriveInval
    \/ \E s \in Slots : AuthLookup(s)
    \/ \E s \in Slots : GetAllRead(s)
    \/ \E s \in Slots : GetAllSend(s)
    \/ \E s \in Slots : UpdateFind(s)
    \/ \E s \in Slots : UpdateWrite(s)
    \/ \E s \in Slots : UpdateSend(s)
    \/ \E s \in Slots : RegisterFind(s)
    \/ \E s \in Slots : RegisterCreate(s)
    \/ \E s \in Slots : RegisterSend(s)
    \/ DeactivateUser(2)
    \/ Tick({1000})

SpecInval == InitInval /\ [][NextInval]_vars

\* the request has changed a user record and been answered
ChangedUsers(r) ==
    /\ Done(r)
    /\ \/ r.route \in {"POST /users", "PUT /users/:id", "DELETE /users/:id"} /\ r.res.status \in {200, 201}
       \/ r.route = "POST /auth/register" /\ r.res.status = 201

\* no request is in flight
Quiet == \A s \in Slots : Free(s)

\* C25 as stated: every answered request that changed a user record has
\* invalidated the cache, and when nothing is in flight the cache holds no
\* payload read before the last change of a user record, whichever operation
\* made it.
C25_EveryChangeInvalidates ==
    /\ \A s \in Slots : ChangedUsers(reqs[s]) => reqs[s].invalidated
    /\ Quiet => \A i \in 1..Len(cache) : cache[i].data.data.ver = dbVer

\* what holds: the three mutations of userController invalidate
C25_ApiChangesInvalidate ==
    \A s \in Slots :
        ChangedUsers(reqs[s]) /\ reqs[s].route # "POST /auth/register" =>
            reqs[s].invalidated /\ cache = <<>>

\* a registration was answered 201 while the cache kept the list read before it
C25_WitnessRegister ==
    \E s \in Slots :
        /\ ChangedUsers(reqs[s]) /\ reqs[s].route = "POST /auth/register" /\ ~reqs[s].invalidated
        /\ \E i \in 1..Len(cache) : cache[i].data.data.ver < dbVer

\* the list read before the deactivation of the second user was served after it
C25_WitnessDeactivated ==
    \E s \in Slots :
        /\ Done(reqs[s]) /\ reqs[s].route = "GET /users" /\ reqs[s].res.xCache = "HIT"
        /\ reqs[s].res.status = 200
        /\ reqs[s].res.body.data.rows # findMany(users)
        /\ ~users[2].isActive

----------------------------------------------------------------------------
(* A burst of logins: the second user logs in from the third address, with *)
(* the right password, while earlier logins of the same burst are still at *)
(* bcrypt.compare                                                          *)

\* requests of one behaviour
MaxArrivalsBurst == 2

\* the logins of the burst that arrived at 0 and have not been answered:
\* with the two that follow they are one more than the tier allows
PendingLogins == authLimiter.max - 1

BurstIp == "10.0.0.3"

\* every limiter counted the pending logins on arrival
BurstHits ==
    [SeedHits EXCEPT !["general"][BurstIp] = [totalHits |-> PendingLogins, resetTime |-> RATE_LIMIT_WINDOW_MS],
                     !["speed"][BurstIp] = [totalHits |-> PendingLogins, resetTime |-> speedLimiter.windowMs],
                     !["auth"][BurstIp] = [totalHits |-> PendingLogins, resetTime |-> authLimiter.windowMs]]

InitBurst ==
    /\ now = 0
    /\ users = SeedUsers
    /\ nextId = 3
    /\ cache = <<>>
    /\ hits = BurstHits
    /\ reqs = [s \in Slots |-> Idle]
    /\ issued = {SeedToken(1), SeedToken(2)}
    /\ stored = {}
    /\ dbVer = 3
    /\ doneVer = 0
    /\ arrivals = 0
    /\ gate = GateIdle
    /\ rl = RlIdle
    /\ probe = [op |-> "pending", n |-> PendingLogins]

ArriveBurst ==
    \E s \in Slots :
        Arrive(s, "POST /auth/login", <<>>, BurstIp, <<>>, NoValue,
               [name |-> "", email |-> "b@x.io", password |-> "pw2"],
               MaxArrivalsBurst, MaxInflight, TRUE)

\* a pending login is answered 200: the 'finish' listener of the auth tier
\* takes its hit back
FinishPending ==
    /\ probe.op = "pending" /\ probe.n > 0
    /\ probe' = [probe EXCEPT !.n = @ - 1]
    /\ hits' = [hits EXCEPT !["auth"] = StoreDecrement(@, BurstIp)]
    /\ issued' = issued \cup {generateToken([userId |-> 2, email |-> "b@x.io", role |-> "USER"], now)}
    /\ UNCHANGED <<now, users, nextId, cache, reqs, stored, dbVer, doneVer, arrivals, gate, rl>>

NextBurst ==
    \/ ArriveBurst
    \/ FinishPending
    \/ \E s \in Slots : LoginFind(s)
    \/ \E s \in Slots : LoginSend(s)
    \/ Tick({1000})

SpecBurst == InitBurst /\ [][NextBurst]_vars

\* the logins of the client that have arrived and not been answered, the
\* request included
InFlight(r) == probe.n + Cardinality({s \in Slots : Started(reqs[s]) /\ ~Done(reqs[s]) /\ reqs[s].ip = r.ip})

\* C26 as stated: no login of a client whose logins all carry the right
\* credentials is refused by the auth tier, however many are in flight.
C26_SuccessfulNeverRejected ==
    \A s \in Slots :
        LET r == reqs[s]
        IN  Started(r) /\ r.route = "POST /auth/login" /\ r.body.password = "pw2" => r.rejectedBy # "auth"

\* what holds: the auth tier refuses such a login only when it is counted as
\* more than the sixth, that is with five others still unanswered; a login
\* that is not refused is answered 200
C26_RejectedOnlyInBurst ==
    \A s \in Slots :
        LET r == reqs[s]
        IN  Done(r) /\ r.route = "POST /auth/login" =>
                /\ r.rejectedBy = "auth" <=> r.rlSeen["auth"].after.totalHits > authLimiter.max
                /\ r.rejectedBy # "auth" => r.res.status = 200

\* a login with the right password was answered 429 by the auth tier while
\* five earlier ones, none of which had failed, were unanswered
C26_WitnessSixthInFlight ==
    \E s \in Slots :
        /\ Done(reqs[s]) /\ RejectedBy(reqs[s], "auth")
        /\ reqs[s].body.password = "pw2"
        /\ reqs[s].rlSeen["auth"].after.totalHits = authLimiter.max + 1
        /\ InFlight(reqs[s]) = authLimiter.max

----------------------------------------------------------------------------
(* The scopes of the rejecting tiers *)

\* the requests the claim puts in the scope of each tier
InScope(n, r) ==
    CASE n = "general" -> ~PathIncludesHealth(r)
      [] n = "auth" -> r.route \in {"POST /auth/register", "POST /auth/login"}
      [] n = "userModification" -> r.route \in {"POST /users", "PUT /users/:id", "DELETE /users/:id"}

\* the count the tier gave the request follows from the client's count in
\* that tier alone
OwnCount(x) ==
    x.after.totalHits = (IF WindowOpen(x) THEN x.before.totalHits + 1 ELSE 1)

\* every request counts in the tiers of its scope only, each tier decides
\* on its own count, and a request whose handler ran was counted and let
\* through by every tier of its scope
Conjunctive ==
    \A s \in Slots :
        LET r == reqs[s]
        IN  Started(r) =>
                /\ \A n \in r.counted :
                        /\ InScope(n, r)
                        /\ OwnCount(r.rlSeen[n])
                        /\ OverLimit(TierOf(n), r.rlSeen[n].after) <=> RejectedBy(r, n)
                /\ r.handler =>
                        \A n \in TierNames :
                            InScope(n, r) => n \in r.counted /\ ~OverLimit(TierOf(n), r.rlSeen[n].after)

\* a step changes the count of a client in a tier only when a request of that
\* client in the scope of the tier takes the step
ScopedStep ==
    \A n \in TierNames, k \in IPs :
        hits'[n][k] # hits[n][k] =>
            \E s \in Slots : reqs'[s] # reqs[s] /\ Started(reqs'[s]) /\ reqs'[s].ip = k /\ InScope(n, reqs'[s])

\* C27: a request is counted only by the tiers whose scope it is in (auth:
\* register and login; user modification: POST, PUT and DELETE of users;
\* general: every path without '/health'), each tier decides on its own
\* count, and a handler runs only for a request that every tier of its scope
\* has counted and let through.
C27_TiersConjunctive == []Conjunctive /\ [][ScopedStep]_vars

\* a creation ran its handler after the general and the user-modification
\* tiers had both counted it and let it through
C27_Witness ==
    \E s \in Slots :
        /\ Started(reqs[s]) /\ reqs[s].handler /\ reqs[s].route = "POST /users"
        /\ reqs[s].counted = {"general", "userModification"}

\* a creation that the general tier let through was refused by the
\* user-modification tier
C27_WitnessOneRefuses ==
    \E s \in Slots :
        /\ RejectedBy(reqs[s], "userModification")
        /\ ~OverLimit(generalLimiter, reqs[s].rlSeen["general"].after)

\* a health check was counted by no tier and answered
C27_WitnessHealth ==
    \E s \in Slots :
        /\ Done(reqs[s]) /\ reqs[s].route = "GET /health" /\ reqs[s].counted = {}
        /\ reqs[s].res.status = 200

----------------------------------------------------------------------------
(* The order of the limiters and the gates *)

\* the authentication or the authorization gate answered the request
GateRefused(r) == Done(r) /\ r.rejectedBy \in {"authn", "authz"}

\* C28 as stated: when the authentication gate or the authorization gate
\* answers a request, every tier whose scope the request is in has counted
\* it; so a mutating user request refused by a gate was counted by the
\* user-modification tier.
C28_TiersBeforeGates ==
    \A s \in Slots :
        LET r == reqs[s]
        IN  GateRefused(r) => \A n \in TierNames : InScope(n, r) => n \in r.counted

\* what holds: the general tier counts before the gates, the authentication
\* gate runs before the authorization gate, both before the cache lookup and
\* the handler; the user-modification tier counts only what both gates let
\* through
C28_GeneralThenGates ==
    \A s \in Slots :
        LET r == reqs[s]
        IN  Started(r) =>
                /\ GateRefused(r) =>
                        /\ InScope("general", r) => "general" \in r.counted
                        /\ "userModification" \notin r.counted
                        /\ ~r.cacheRead /\ ~r.handler
                /\ r.rejectedBy = "authz" => r.user # NoValue
                /\ "userModification" \in r.counted => r.user # NoValue
                /\ Protected(r.route) /\ (r.cacheRead \/ r.handler) => r.user # NoValue

\* a creation without a token was refused by the authentication gate and
\* not counted by the user-modification tier
C28_WitnessUncounted ==
    \E s \in Slots :
        /\ GateRefused(reqs[s]) /\ reqs[s].route = "POST /users" /\ reqs[s].rejectedBy = "authn"
        /\ reqs[s].counted = {"general"}
        /\ hits["userModification"][reqs[s].ip] = NoValue

\* a creation by a plain user was refused by the authorization gate and not
\* counted by the user-modification tier
C28_WitnessForbidden ==
    \E s \in Slots :
        /\ GateRefused(reqs[s]) /\ reqs[s].route = "POST /users" /\ reqs[s].rejectedBy = "authz"
        /\ reqs[s].res.status = 403
        /\ "userModification" \notin reqs[s].counted

----------------------------------------------------------------------------
(* Conditional requests *)

\* the response of a GET that res.send was given with status 200
Taggable(r) == Done(r) /\ Method(r.route) = "GET" /\ r.res.jsonStatus = 200

\* C29: a GET whose response status is 200 carries a validator that is a
\* function of the body; when If-None-Match is that validator the answer is
\* 304 without a body, otherwise 200 with the body, whether the body came
\* from the cache or from the handler; any other response has no validator
\* and keeps its status.
C29_ConditionalGet ==
    /\ \A s \in Slots :
        LET r == reqs[s]
        IN  Done(r) =>
                IF Taggable(r)
                THEN /\ r.res.etag # NoValue
                     /\ IF r.ifNoneMatch = r.res.etag
                        THEN r.res.status = 304 /\ r.res.body = NoValue
                        ELSE /\ r.res.status = 200
                             /\ r.res.body # NoValue
                             /\ r.res.etag = ETag(r.res.body)
                ELSE r.res.etag = NoValue /\ r.res.status = r.res.jsonStatus
    /\ \A s1, s2 \in Slots :
        /\ Taggable(reqs[s1]) /\ Taggable(reqs[s2])
        /\ reqs[s1].res.status = 200 /\ reqs[s2].res.status = 200
        /\ reqs[s1].res.body = reqs[s2].res.body
        => reqs[s1].res.etag = reqs[s2].res.etag

\* the validator of the cached payload was presented and the hit was
\* answered 304 without a body
C29_Witness ==
    \E s \in Slots :
        /\ Taggable(reqs[s]) /\ reqs[s].res.xCache = "HIT"
        /\ reqs[s].ifNoneMatch # NoValue
        /\ reqs[s].res.status = 304 /\ reqs[s].res.body = NoValue

\* the lookup missed, the handler produced the body the client holds, and
\* the answer was 304
C29_WitnessMiss ==
    \E s \in Slots :
        /\ Taggable(reqs[s]) /\ reqs[s].res.xCache = "MISS" /\ reqs[s].handler
        /\ reqs[s].ifNoneMatch # NoValue
        /\ reqs[s].res.status = 304 /\ reqs[s].res.body = NoValue

\* a validator of another body was presented and the full body was sent
C29_WitnessChanged ==
    \E s \in Slots :
        /\ Taggable(reqs[s]) /\ reqs[s].ifNoneMatch # NoValue
        /\ reqs[s].res.status = 200 /\ reqs[s].res.etag # reqs[s].ifNoneMatch

----------------------------------------------------------------------------
(* The error handler *)

MaxErrors == 2

\* the errors the application passes to next(): AppError as the services,
\* gates and controllers construct it (statusCode defaults to 500), the
\* errors of Prisma and of the body parser, which carry their own
\* properties, and a plain Error without a message
ThrownErrors ==
    {[class |-> "AppError", message |-> "Access token is required", statusCode |-> 401],
     [class |-> "AppError", message |-> "Insufficient permissions", statusCode |-> 403],
     [class |-> "AppError", message |-> "User not found", statusCode |-> 404],
     [class |-> "AppError", message |-> "Failed to create user", statusCode |-> 500],
     [class |-> "PrismaClientKnownRequestError", message |-> "Unique constraint failed on the fields: (email)",
      code |-> "P2002"],
     [class |-> "SyntaxError", message |-> "Unexpected token } in JSON at position 7", status |-> 400],
     [class |-> "Error", message |-> "", code |-> ""]}

\* err.stack: the class, the message and the frames of the throw site
StackOf(err) == [frames |-> <<err.class, err.message, "at">>]

\* export const isDevelopment = CONFIG.NODE_ENV === 'development'
isDevelopment(CONFIG) == CONFIG.NODE_ENV = "development"

\* the error handler with the stack and the class name added whatever the mode
errorHandlerAlwaysStack(err, development, t) ==
    [status |-> IF err.class = "AppError" THEN err.statusCode ELSE 500,
     body |-> [success |-> FALSE,
               message |-> IF err.message = "" THEN "Internal server error" ELSE err.message,
               timestamp |-> t,
               stack |-> StackOf(err),
               error |-> [name |-> err.class]]]

\* errorHandler: the status of an AppError or 500, the body {success,
\* message, timestamp}, and in development mode the stack and the name of the
\* error's class; a property that is absent is NoValue
errorHandler(err, development, t) ==
    LET statusCode == IF err.class = "AppError" THEN err.statusCode ELSE 500
        errorResponse == [success |-> FALSE,
                          message |-> IF err.message = "" THEN "Internal server error" ELSE err.message,
                          timestamp |-> t,
                          stack |-> NoValue,
                          error |-> NoValue]
    IN  [status |-> statusCode,
         body |-> IF development
                  THEN [errorResponse EXCEPT !.stack = StackOf(err), !.error = [name |-> err.class]]
                  ELSE errorResponse]

\* the process has imported its configuration under some NODE_ENV, with the
\* variables production requires, and listens
InitError ==
    /\ now = 0
    /\ users = SeedUsers
    /\ nextId = 3
    /\ cache = <<>>
    /\ hits = EmptyHits
    /\ reqs = [s \in Slots |-> Idle]
    /\ issued = {}
    /\ stored = {}
    /\ dbVer = 3
    /\ doneVer = 0
    /\ arrivals = 0
    /\ gate = GateIdle
    /\ rl = RlIdle
    /\ \E n \in EnvNodeEnv :
            LET out == LoadConfig([NODE_ENV |-> n, JWT_SECRET |-> <<"s3cret">>,
                                   DATABASE_URL |-> <<"postgres://db/prod">>])
            IN  probe = [op |-> "errors", NODE_ENV |-> out.CONFIG.NODE_ENV,
                         isDevelopment |-> isDevelopment(out.CONFIG), sent |-> <<>>]

\* app.use(errorHandler): a middleware or a handler passed err to next()
HandleError ==
    /\ probe.op = "errors" /\ Len(probe.sent) < MaxErrors
    /\ \E err \in ThrownErrors :
            probe' = [probe EXCEPT !.sent = Append(@, [err |-> err,
                                                        res |-> errorHandler(err, probe.isDevelopment, now)])]
    /\ UNCHANGED <<now, users, nextId, cache, hits, reqs, issued, stored, dbVer, doneVer, arrivals, gate, rl>>

NextError ==
    \/ HandleError
    \/ Tick({1000})

SpecError == InitError /\ [][NextError]_vars

\* the error responses sent so far
ErrorsSent == {probe.sent[i] : i \in 1..Len(probe.sent)}

\* C30: the body of an error response carries the stack and the name of the
\* error's class only in development mode (NODE_ENV 'development', or unset):
\* outside it the body has neither, and in every mode an error that is not
\* an AppError is answered 500 and an AppError with its own status.
C30_StackOnlyInDevelopment ==
    \A x \in ErrorsSent :
        /\ probe.NODE_ENV # "development" => x.res.body.stack = NoValue /\ x.res.body.error = NoValue
        /\ x.res.body.stack # NoValue \/ x.res.body.error # NoValue => probe.isDevelopment
        /\ x.err.class # "AppError" => x.res.status = 500
        /\ x.err.class = "AppError" => x.res.status = x.err.statusCode

\* in production an error of Prisma was answered 500 with its message and
\* without stack or class name
C30_Witness ==
    \E x \in ErrorsSent :
        /\ probe.NODE_ENV = "production"
        /\ x.err.class = "PrismaClientKnownRequestError"
        /\ x.res.status = 500
        /\ x.res.body.stack = NoValue /\ x.res.body.error = NoValue

\* in development mode the body carries the stack and the class name
C30_WitnessDevelopment ==
    \E x \in ErrorsSent :
        /\ probe.isDevelopment
        /\ x.res.body.stack = StackOf(x.err) /\ x.res.body.error = [name |-> x.err.class]

\* outside development a body-parser error with status 400 was answered 500
C30_WitnessParser ==
    \E x \in ErrorsSent :
        /\ probe.NODE_ENV = "test"
        /\ x.err.class = "SyntaxError" /\ x.res.status = 500
        /\ x.res.body.stack = NoValue

----------------------------------------------------------------------------
(* The client closes the connection while its request is in flight *)

MaxArrivalsClose == 2

CloseRoutes == {"GET /users", "PUT /users/:id", "POST /auth/login"}

\* the administrator lists and renames from the second address; the second
\* user logs in with the right password from the third
ArriveClose ==
    \E s \in Slots, route \in CloseRoutes :
        Arrive(s, route, IF HasIdParam(route) THEN <<"2">> ELSE <<>>,
               IF route = "POST /auth/login" THEN "10.0.0.3" ELSE "10.0.0.2",
               IF route = "POST /auth/login" THEN <<>> ELSE <<"Bearer", SeedToken(1)>>, NoValue,
               CASE route = "PUT /users/:id" -> [name |-> "Al", email |-> "", password |-> ""]
                 [] route = "POST /auth/login" -> [name |-> "", email |-> "b@x.io", password |-> "pw2"]
                 [] OTHER -> EmptyBody,
               MaxArrivalsClose, MaxInflight, TRUE)

InitClose == SeededInit

\* a disconnect that takes the request's hits back, as the 'close' listener
\* of a limiter with skipFailedRequests does
DisconnectRollback(s) ==
    /\ Started(reqs[s]) /\ ~Done(reqs[s]) /\ ~reqs[s].closed
    /\ reqs' = [reqs EXCEPT ![s].closed = TRUE, ![s].onFinish = {}]
    /\ hits' = [n \in StoreNames |->
                   IF n \in reqs[s].counted THEN StoreDecrement(hits[n], reqs[s].ip) ELSE hits[n]]
    /\ UNCHANGED <<now, users, nextId, cache, issued, stored, dbVer, doneVer, arrivals, gate, rl, probe>>

\* the socket of a request in flight closes: no middleware and no handler
\* listens for 'close' or 'aborted', so the request goes on as before; its
\* response never emits 'finish', so the listeners registered for that event
\* by a limiter with skipSuccessfulRequests never run
Disconnect(s) ==
    /\ Started(reqs[s]) /\ ~Done(reqs[s]) /\ ~reqs[s].closed
    /\ reqs' = [reqs EXCEPT ![s].closed = TRUE, ![s].onFinish = {}]
    /\ UNCHANGED <<now, users, nextId, cache, hits, issued, stored, dbVer, doneVer, arrivals, gate, rl, probe>>

NextClose ==
    \/ ArriveClose
    \/ \E s \in Slots : Disconnect(s)
    \/ \E s \in Slots : AuthLookup(s)
    \/ \E s \in Slots : GetAllRead(s)
    \/ \E s \in Slots : GetAllSend(s)
    \/ \E s \in Slots : UpdateFind(s)
    \/ \E s \in Slots : UpdateWrite(s)
    \/ \E s \in Slots : UpdateSend(s)
    \/ \E s \in Slots : LoginFind(s)
    \/ \E s \in Slots : LoginSend(s)

SpecClose == InitClose /\ [][NextClose]_vars

\* the requests on record whose client disconnected after tier n counted
\* them for address k in the window the store holds now
ClosedCounted(n, k) ==
    {s \in Slots : /\ Started(reqs[s]) /\ reqs[s].closed
                   /\ reqs[s].ip = k /\ n \in reqs[s].counted
                   /\ hits[n][k] # NoValue
                   /\ reqs[s].rlSeen[n].after.resetTime = hits[n][k].resetTime}

\* every disconnected request is still in the count of each tier that
\* counted it
StaysCounted ==
    \A n \in TierNames, k \in IPs :
        ClosedCounted(n, k) # {} => hits[n][k].totalHits >= Cardinality(ClosedCounted(n, k))

\* a disconnected request that went on to its end has written the cache (a
\* listing that missed) or emptied it (an update that was written)
ClosedCompletes ==
    \A s \in Slots :
        LET r == reqs[s]
        IN  Done(r) /\ r.closed =>
                /\ r.route = "GET /users" /\ r.res.jsonStatus = 200 /\ r.res.xCache = "MISS" =>
                        r.cacheWrite /\ r.res.body # NoValue
                /\ r.route = "PUT /users/:id" /\ r.res.jsonStatus = 200 => r.invalidated

\* the cache map holds each key once and no more than maxSize entries
CacheWhole ==
    /\ Len(cache) <= maxSize
    /\ \A i, j \in 1..Len(cache) : cache[i].key = cache[j].key => i = j

\* the step in which a connection closes changes no counter, no cache entry
\* and no user record
NoRollback ==
    (\E s \in Slots : Started(reqs[s]) /\ ~reqs[s].closed /\ Started(reqs'[s]) /\ reqs'[s].closed
                      /\ reqs'[s].t0 = reqs[s].t0 /\ reqs'[s].pc = reqs[s].pc)
        => hits' = hits /\ cache' = cache /\ stored' = stored /\ users' = users

\* C31: a request counted by a tier stays counted when its client
\* disconnects, the disconnect itself changes neither a counter nor the
\* cache, the cache write or the invalidation of such a request still
\* happens, and the cache map is whole in every state.
C31_DisconnectKeepsState == [](StaysCounted /\ ClosedCompletes /\ CacheWhole) /\ [][NoRollback]_vars

\* the client of a login with the right password disconnected; the login
\* was answered 200 and is still counted by the auth tier
C31_Witness ==
    \E s \in Slots :
        /\ Done(reqs[s]) /\ reqs[s].closed /\ reqs[s].route = "POST /auth/login"
        /\ reqs[s].res.status = 200
        /\ hits["auth"][reqs[s].ip].totalHits >= 1

\* the client of an update disconnected before the write; the write and the
\* invalidation happened
C31_WitnessInvalidated ==
    \E s \in Slots :
        /\ Done(reqs[s]) /\ reqs[s].closed /\ reqs[s].route = "PUT /users/:id"
        /\ reqs[s].invalidated /\ users[2].name = "Al"

\* the client of a listing disconnected; the body was stored in the cache
C31_WitnessStored ==
    \E s \in Slots :
        /\ Done(reqs[s]) /\ reqs[s].closed /\ reqs[s].route = "GET /users"
        /\ reqs[s].cacheWrite /\ Len(cache) >= 1

----------------------------------------------------------------------------
(* Optional authentication *)

MaxCallsOptional == 2

\* the headers of AuthHeaders, a header with an empty token, and a token
\* issued at 0 to a principal that has been deleted since
OptionalHeaders ==
    {<<>>, <<"Bearer">>, <<"Bearer", EmptyPart>>, <<"Bearer", Garbage>>,
     <<"Bearer", SeedToken(1)>>, <<"Bearer", SeedToken(2)>>,
     <<"Bearer", [SeedToken(2) EXCEPT !.sig = "forged"]>>,
     <<"Bearer", generateToken([userId |-> 3, email |-> "c@x.io", role |-> "USER"], 0)>>}

\* optionalAuth answering a token that does not verify as authenticateToken does
optionalAuthRejecting(authHeader, t) ==
    LET token == BearerToken(authHeader)
    IN  IF token = NoValue THEN [pc |-> "done", decoded |-> NoValue, next |-> "next()"]
        ELSE LET v == verifyToken(token, t)
             IN  IF ~v.ok THEN [pc |-> "done", decoded |-> NoValue, next |-> "next(error)"]
                 ELSE [pc |-> "lookup", decoded |-> v.decoded, next |-> "none"]

\* optionalAuth up to its await: without a token next() is called at once;
\* an exception of verifyToken is caught and next() called without an
\* argument; otherwise the lookup of decoded.userId is awaited
optionalAuth(authHeader, t) ==
    LET token == BearerToken(authHeader)
    IN  IF token = NoValue THEN [pc |-> "done", decoded |-> NoValue, next |-> "next()"]
        ELSE LET v == verifyToken(token, t)
             IN  IF ~v.ok THEN [pc |-> "done", decoded |-> NoValue, next |-> "next()"]
                 ELSE [pc |-> "lookup", decoded |-> v.decoded, next |-> "none"]

InitOptional ==
    /\ now = 0
    /\ users = SeedUsers
    /\ nextId = 3
    /\ cache = <<>>
    /\ hits = SeedHits
    /\ reqs = [s \in Slots |-> Idle]
    /\ issued = {SeedToken(1), SeedToken(2)}
    /\ stored = {}
    /\ dbVer = 3
    /\ doneVer = 0
    /\ arrivals = 0
    /\ gate = GateIdle
    /\ rl = RlIdle
    /\ probe = [op |-> "optionalAuth", calls |-> <<>>]

\* the last call of optionalAuth is awaiting its lookup
Awaiting == Len(probe.calls) > 0 /\ probe.calls[Len(probe.calls)].pc = "lookup"

\* a request with some Authorization header reaches optionalAuth
OptionalAuthCall ==
    /\ probe.op = "optionalAuth" /\ ~Awaiting /\ Len(probe.calls) < MaxCallsOptional
    /\ \E h \in OptionalHeaders :
            LET out == optionalAuth(h, now)
            IN  probe' = [probe EXCEPT !.calls = Append(@,
                              [authHeader |-> h, at |-> now, pc |-> out.pc, decoded |-> out.decoded,
                               next |-> out.next, user |-> NoValue, row |-> NoValue])]
    /\ UNCHANGED <<now, users, nextId, cache, hits, reqs, issued, stored, dbVer, doneVer, arrivals, gate, rl>>

\* optionalAuth after `await authService.getUserById(decoded.userId)`:
\* req.user is set if the lookup returned a user, then next()
OptionalAuthLookup ==
    /\ probe.op = "optionalAuth" /\ Awaiting
    /\ LET i == Len(probe.calls)
           id == probe.calls[i].decoded.userId
           user == getActiveUserById(users, id)
       IN  probe' = [probe EXCEPT !.calls[i] = [@ EXCEPT !.pc = "done", !.next = "next()",
                                                         !.user = user, !.row = users[id]]]
    /\ UNCHANGED <<now, users, nextId, cache, hits, reqs, issued, stored, dbVer, doneVer, arrivals, gate, rl>>

NextOptional ==
    \/ OptionalAuthCall
    \/ OptionalAuthLookup
    \/ DeactivateUser(2)
    \/ Tick(AuthTimes)

SpecOptional == InitOptional /\ [][NextOptional]_vars

\* the calls of optionalAuth that have called next
OptionalDone == {probe.calls[i] : i \in {j \in 1..Len(probe.calls) : probe.calls[j].pc = "done"}}

\* the token of the call is well formed, rightly signed and was not expired
\* when the call was made
TokenVerifies(c) ==
    LET token == BearerToken(c.authHeader)
    IN  /\ token # NoValue
        /\ token.kind = "jwt" /\ token.sig = "valid"
        /\ c.at \div 1000 < token.exp

\* C32: optionalAuth always calls next() without an error; it attaches the
\* principal exactly when the token verifies and the row read by the lookup
\* exists and is active, and the principal attached is that row.
C32_OptionalAuthNeverRejects ==
    \A c \in OptionalDone :
        /\ c.next = "next()"
        /\ c.user # NoValue <=> (TokenVerifies(c) /\ c.row # NoValue /\ c.row.isActive)
        /\ c.user # NoValue =>
                /\ c.user.id = BearerToken(c.authHeader).userId
                /\ c.user.email = c.row.email /\ c.user.role = c.row.role

\* a forged token passed through with no principal attached
C32_Witness ==
    \E c \in OptionalDone :
        /\ BearerToken(c.authHeader) # NoValue /\ BearerToken(c.authHeader).kind = "jwt"
        /\ BearerToken(c.authHeader).sig = "forged"
        /\ c.next = "next()" /\ c.user = NoValue

\* the principal was deactivated while the lookup was awaited
C32_WitnessInactive ==
    \E c \in OptionalDone :
        /\ TokenVerifies(c) /\ c.row # NoValue /\ ~c.row.isActive
        /\ c.next = "next()" /\ c.user = NoValue

\* the token names a principal that no longer exists
C32_WitnessMissing ==
    \E c \in OptionalDone : TokenVerifies(c) /\ c.row = NoValue /\ c.user = NoValue

\* an expired token passed through
C32_WitnessExpired ==
    \E c \in OptionalDone :
        /\ BearerToken(c.authHeader) # NoValue /\ BearerToken(c.authHeader).kind = "jwt"
        /\ BearerToken(c.authHeader).sig = "valid" /\ ~TokenVerifies(c)
        /\ c.user = NoValue

\* a valid token of an active principal attached it
C32_WitnessAttached ==
    \E c \in OptionalDone : c.user # NoValue /\ c.user.role = "ADMIN"

----------------------------------------------------------------------------
(* Where tokens are issued *)

MaxArrivalsIssue == 2

IssueRoutes == {"POST /auth/register", "POST /auth/login", "POST /auth/refresh"}

\* a new email or the second user's, with a password; the second user's
\* email with the right or a wrong password, or an email nobody has
IssueBodies(route) ==
    CASE route = "POST /auth/register" ->
            {[name |-> "Cy", email |-> "c@x.io", password |-> "pw3"],
             [name |-> "Bo", email |-> "b@x.io", password |-> "pw3"]}
      [] route = "POST /auth/login" ->
            {[name |-> "", email |-> "b@x.io", password |-> "pw2"],
             [name |-> "", email |-> "b@x.io", password |-> "bad"],
             [name |-> "", email |-> "z@x.io", password |-> "pw2"]}
      [] OTHER -> {EmptyBody}

ArriveIssue ==
    \E s \in Slots, route \in IssueRoutes, withToken \in BOOLEAN :
        \E body \in IssueBodies(route) :
            /\ withToken <=> route = "POST /auth/refresh"
            /\ Arrive(s, route, <<>>, "10.0.0.2",
                      IF withToken THEN <<"Bearer", SeedToken(2)>> ELSE <<>>, NoValue, body,
                      MaxArrivalsIssue, MaxInflight, TRUE)

\* a refresh without a token
ArriveIssueAnonymous ==
    \E s \in Slots :
        Arrive(s, "POST /auth/refresh", <<>>, "10.0.0.2", <<>>, NoValue, EmptyBody,
               MaxArrivalsIssue, MaxInflight, TRUE)

InitIssue == SeededInit

NextIssue ==
    \/ ArriveIssue
    \/ ArriveIssueAnonymous
    \/ \E s \in Slots : AuthLookup(s)
    \/ \E s \in Slots : LoginFind(s)
    \/ \E s \in Slots : LoginSend(s)
    \/ \E s \in Slots : RegisterFind(s)
    \/ \E s \in Slots : RegisterCreate(s)
    \/ \E s \in Slots : RegisterSend(s)
    \/ DeactivateUser(2)
    \/ Tick({1000})

SpecIssue == InitIssue /\ [][NextIssue]_vars

\* the response of the request carries a token
CarriesToken(r) == Done(r) /\ r.res.body.data # NoValue

\* the token of a response was issued in one of the three situations:
\* registration, with role USER for a principal created by the request;
\* login, with the payload of the row the lookup found by the email of the
\* body, which was active when it was read and has the password of the
\* body; refresh, with the payload of the principal the
\* authentication gate attached
RightlyIssued(r) ==
    LET tok == r.res.body.data
    IN  /\ tok \in issued
        /\ tok.kind = "jwt" /\ tok.sig = "valid"
        /\ CASE r.route = "POST /auth/register" ->
                    /\ r.res.status = 201
                    /\ tok.role = "USER"
                    /\ SeedUsers[tok.userId] = NoValue
                    /\ users[tok.userId] # NoValue
                    /\ users[tok.userId].email = r.body.email /\ tok.email = r.body.email
             [] r.route = "POST /auth/login" ->
                    /\ r.res.status = 200
                    /\ r.tmp.id = tok.userId /\ r.tmp.email = r.body.email /\ tok.email = r.tmp.email
                    /\ tok.role = r.tmp.role
                    /\ r.tmp.password = r.body.password
                    /\ r.tmp.isActive
             [] r.route = "POST /auth/refresh" ->
                    /\ r.res.status = 200
                    /\ r.user # NoValue /\ r.user.isActive
                    /\ tok.userId = r.user.id /\ tok.role = r.user.role /\ tok.email = r.user.email
             [] OTHER -> FALSE

\* a login that did not find the email, found an inactive row or compared a
\* wrong password was answered 401 without a token
LoginRefused(r) ==
    Done(r) /\ r.route = "POST /auth/login" /\ r.dbHandler /\
    (r.tmp = NoValue \/ r.tmp.password # r.body.password)
        => r.res.status = 401 /\ ~CarriesToken(r)

\* every step that adds a token to those issued ends a request whose
\* response carries that token
IssuedInResponse ==
    \A tok \in issued' \ issued :
        \E s \in Slots : ~Done(reqs[s]) /\ CarriesToken(reqs'[s]) /\ reqs'[s].res.body.data = tok

\* the step that answers a login with a token finds the principal active
LoginActiveAtIssue ==
    \A s \in Slots :
        ~Done(reqs[s]) /\ CarriesToken(reqs'[s]) /\ reqs'[s].route = "POST /auth/login"
            => users[reqs'[s].tmp.id].isActive

\* C33 as stated: a token is issued only by a registration of a new
\* principal with role USER, by a login whose principal exists, is active
\* and whose password verifies, or by an authenticated refresh, and a refused
\* login is answered 401 without a token; read with the principal active
\* when the token is issued.
C33_IssuedOnlyInThreeSituations ==
    /\ [](\A s \in Slots : /\ CarriesToken(reqs[s]) => RightlyIssued(reqs[s])
                           /\ LoginRefused(reqs[s]))
    /\ [][IssuedInResponse /\ LoginActiveAtIssue]_vars

\* C33, amended: as stated, where the principal of a login is the row the
\* login read by email before it compared the password: that row was active
\* when it was read, and may have been deactivated before the token is
\* issued.
C33_IssuedForRowAsRead ==
    /\ [](\A s \in Slots : /\ CarriesToken(reqs[s]) => RightlyIssued(reqs[s])
                           /\ LoginRefused(reqs[s]))
    /\ [][IssuedInResponse]_vars

\* a login with the right password was answered 200 with a token
C33_Witness ==
    \E s \in Slots :
        /\ CarriesToken(reqs[s]) /\ reqs[s].route = "POST /auth/login"
        /\ reqs[s].res.status = 200 /\ reqs[s].res.body.data.userId = 2

\* a login was answered with a token after its principal was deactivated
C33_WitnessDeactivatedMeanwhile ==
    \E s \in Slots :
        /\ CarriesToken(reqs[s]) /\ reqs[s].route = "POST /auth/login"
        /\ ~users[2].isActive /\ reqs[s].res.body.data.userId = 2
        /\ reqs[s].res.body.data.iat = now \div 1000 /\ now = 1000 /\ dbVer = 4

\* a registration was answered 201 with a token of role USER
C33_WitnessRegister ==
    \E s \in Slots :
        /\ CarriesToken(reqs[s]) /\ reqs[s].route = "POST /auth/register"
        /\ reqs[s].res.body.data.role = "USER" /\ reqs[s].res.body.data.userId = 3

\* a refresh was answered 200 with a token
C33_WitnessRefresh ==
    \E s \in Slots : CarriesToken(reqs[s]) /\ reqs[s].route = "POST /auth/refresh"

\* a login with a wrong password was answered 401
C33_WitnessRefused ==
    \E s \in Slots :
        /\ Done(reqs[s]) /\ reqs[s].route = "POST /auth/login" /\ reqs[s].tmp # NoValue
        /\ reqs[s].body.password = "bad" /\ reqs[s].res.status = 401

----------------------------------------------------------------------------
(* A principal's role is changed while its tokens are still valid *)

MaxArrivalsRole == 2

MaxInflightRole == 1

RoleRoutes == {"POST /users", "POST /auth/refresh"}

RoleTimes == {1000}

\* either seeded user, with the token it was issued at 0; the creation has
\* no name and no email and is answered 400 by the validation
ArriveRole ==
    \E s \in Slots, route \in RoleRoutes, id \in {1, 2} :
        Arrive(s, route, <<>>, "10.0.0.2", <<"Bearer", SeedToken(id)>>, NoValue, EmptyBody,
               MaxArrivalsRole, MaxInflightRole, TRUE)

InitRole ==
    /\ now = 0
    /\ users = SeedUsers
    /\ nextId = 3
    /\ cache = <<>>
    /\ hits = SeedHits
    /\ reqs = [s \in Slots |-> Idle]
    /\ issued = {SeedToken(1), SeedToken(2)}
    /\ stored = {}
    /\ dbVer = 3
    /\ doneVer = 0
    /\ arrivals = 0
    /\ gate = GateIdle
    /\ rl = RlIdle
    /\ probe = [op |-> "roles", changed |-> {}]

\* authService.updateUserRole(userId, role): prisma.user.update({data: {role}});
\* history: the instant of the change, once for each principal
UpdateUserRole(id, role) ==
    /\ probe.op = "roles"
    /\ users[id] # NoValue /\ users[id].role # role
    /\ \A c \in probe.changed : c.id # id
    /\ users' = [users EXCEPT ![id].role = role]
    /\ dbVer' = dbVer + 1
    /\ probe' = [probe EXCEPT !.changed = @ \cup {[id |-> id, role |-> role, at |-> now]}]
    /\ UNCHANGED <<now, nextId, cache, hits, reqs, issued, stored, doneVer, arrivals, gate, rl>>

NextRole ==
    \/ ArriveRole
    \/ \E s \in Slots : AuthLookup(s)
    \/ \E id \in {1, 2}, role \in Roles : UpdateUserRole(id, role)
    \/ Tick(RoleTimes)

SpecRole == InitRole /\ [][NextRole]_vars

\* the changes of role made before the request arrived to the principal its
\* token names
ChangedBefore(r) == {c \in probe.changed : c.id = BearerToken(r.authHeader).userId /\ c.at < r.t0}

\* C34: a request that arrives after the role of its principal was changed
\* is authorized by the new role whatever role its token claims: the
\* creation is answered 403 exactly when the new role is neither ADMIN nor
\* MODERATOR, and a refresh answers with a token that claims the new role.
C34_LiveRoleDecides ==
    \A s \in Slots :
        LET r == reqs[s]
        IN  Done(r) =>
                \A c \in ChangedBefore(r) :
                    /\ r.user # NoValue /\ r.user.role = c.role
                    /\ r.route = "POST /users" =>
                            /\ r.res.status = 403 <=> c.role \notin {"ADMIN", "MODERATOR"}
                            /\ r.res.status # 403 => r.res.status = 400 /\ "userModification" \in r.counted
                    /\ r.route = "POST /auth/refresh" =>
                            /\ r.res.status = 200
                            /\ r.res.body.data.role = c.role
                            /\ r.res.body.data.userId = c.id

\* the administrator was demoted; its token still claims ADMIN and its
\* creation was answered 403
C34_Witness ==
    \E s \in Slots :
        /\ Done(reqs[s]) /\ reqs[s].route = "POST /users" /\ ChangedBefore(reqs[s]) # {}
        /\ BearerToken(reqs[s].authHeader).role = "ADMIN"
        /\ reqs[s].user.role = "USER"
        /\ reqs[s].res.status = 403

\* the second user was promoted; its token still claims USER and its
\* creation passed the authorization gate
C34_WitnessPromoted ==
    \E s \in Slots :
        /\ Done(reqs[s]) /\ reqs[s].route = "POST /users" /\ ChangedBefore(reqs[s]) # {}
        /\ BearerToken(reqs[s].authHeader).role = "USER"
        /\ reqs[s].user.role = "MODERATOR"
        /\ reqs[s].res.status = 400

\* a refresh with a token that claims USER answered with a token that claims ADMIN
C34_WitnessRefresh ==
    \E s \in Slots :
        /\ Done(reqs[s]) /\ reqs[s].route = "POST /auth/refresh" /\ ChangedBefore(reqs[s]) # {}
        /\ BearerToken(reqs[s].authHeader).role = "USER"
        /\ reqs[s].res.body.data.role = "ADMIN"

----------------------------------------------------------------------------
(* The auth tier over registrations and logins *)

MaxArrivalsShared == 4

MaxInflightShared == 1

\* failed logins the second address has sent, one at a time, at 0
SeedFails == 3

\* an instant after the end of the window that started at 0
SharedTimes == {1000000}

SharedRoutes == {"POST /auth/register", "POST /auth/login", "GET /auth/profile", "POST /auth/refresh"}

\* a registration without a name or with the second user's email, a login
\* without a password, with a wrong one or with the right one
SharedBodies(route) ==
    CASE route = "POST /auth/register" ->
            {[name |-> "", email |-> "c@x.io", password |-> "pw3"],
             [name |-> "Bo", email |-> "b@x.io", password |-> "pw3"]}
      [] route = "POST /auth/login" ->
            {[name |-> "", email |-> "b@x.io", password |-> ""],
             [name |-> "", email |-> "b@x.io", password |-> "bad"],
             [name |-> "", email |-> "b@x.io", password |-> "pw2"]}
      [] OTHER -> {EmptyBody}

ArriveShared ==
    \E s \in Slots, route \in SharedRoutes :
        \E body \in SharedBodies(route) :
            Arrive(s, route, <<>>, "10.0.0.2",
                   IF Protected(route) THEN <<"Bearer", SeedToken(2)>> ELSE <<>>, NoValue, body,
                   MaxArrivalsShared, MaxInflightShared, FALSE)

\* the second address has failed SeedFails logins at 0, which started its
\* windows
InitShared ==
    /\ now = 0
    /\ users = SeedUsers
    /\ nextId = 3
    /\ cache = <<>>
    /\ hits = [SeedHits EXCEPT !["auth"]["10.0.0.2"] =
                                   [totalHits |-> SeedFails, resetTime |-> authLimiter.windowMs],
                               !["general"]["10.0.0.2"] =
                                   [totalHits |-> SeedFails, resetTime |-> RATE_LIMIT_WINDOW_MS],
                               !["speed"]["10.0.0.2"] =
                                   [totalHits |-> SeedFails, resetTime |-> speedLimiter.windowMs]]
    /\ reqs = [s \in Slots |-> Idle]
    /\ issued = {SeedToken(1), SeedToken(2)}
    /\ stored = {}
    /\ dbVer = 3
    /\ doneVer = 0
    /\ arrivals = 0
    /\ gate = GateIdle
    /\ probe = ProbeIdle
    /\ rl = [RlIdle EXCEPT !["10.0.0.2"] = [lastOk |-> FALSE, oks |-> 0, fails |-> SeedFails, since |-> 0]]

NextShared ==
    \/ ArriveShared
    \/ \E s \in Slots : AuthLookup(s)
    \/ \E s \in Slots : LoginFind(s)
    \/ \E s \in Slots : LoginSend(s)
    \/ \E s \in Slots : RegisterFind(s)
    \/ Tick(SharedTimes)

SpecShared == InitShared /\ [][NextShared]_vars

\* the failures the client's log holds when the request arrives were all
\* counted in the window that is running
FailuresInWindow(r) ==
    LET x == r.rlSeen["auth"]
    IN  WindowOpen(x) /\ r.log0.since >= x.before.resetTime - authLimiter.windowMs

\* the state of a registration or a login that the general tier let through:
\* the auth tier counted it under the address, as one more hit of the
\* running window or as the first of a new one, and answered 429 exactly
\* when that made more than five; after five or more failures in a row, all
\* in the running window, it is refused
CountedByAuth(r) ==
    LET x == r.rlSeen["auth"]
    IN  /\ "auth" \in r.counted
        /\ x.key = [address |-> r.ip]
        /\ OwnCount(x)
        /\ RejectedBy(r, "auth") <=> x.after.totalHits > 5
        /\ r.rejectedBy = "auth" => RejectedBy(r, "auth")
        /\ FailuresInWindow(r) =>
                /\ x.after.totalHits >= r.log0.fails + 1
                /\ r.log0.fails >= 5 => RejectedBy(r, "auth")

\* a step of a registration or a login leaves in the client's counter the
\* hit counted on arrival, unless the step answers with a status below 400,
\* which takes one hit off a counter that is above zero
AuthCountStep ==
    \A s \in Slots :
        LET r == reqs'[s]
            k == r.ip
            arrived == Free(s)
            answeredOk == Done(r) /\ r.res.status < 400
        IN  (arrived \/ r.pc # reqs[s].pc) /\ reqs'[s] # reqs[s] /\ Started(r) /\ "auth" \in r.counted =>
                hits'["auth"][k].totalHits =
                    Max(0, (IF arrived THEN r.rlSeen["auth"].after.totalHits ELSE hits["auth"][k].totalHits)
                                - (IF answeredOk THEN 1 ELSE 0))

C35_WitnessLogin ==
    \E s \in Slots :
        LET r == reqs[s]
        IN  /\ Started(r) /\ r.route = "POST /auth/login" /\ r.rlSeen["auth"] # NoValue
            /\ FailuresInWindow(r) /\ r.log0.fails >= 5
            /\ RejectedBy(r, "auth") /\ r.res.status = 429

\* with five failures counted, the profile was served
C35_WitnessProfile ==
    \E s \in Slots :
        /\ Done(reqs[s]) /\ reqs[s].route = "GET /auth/profile" /\ reqs[s].res.status = 200
        /\ hits["auth"]["10.0.0.2"].totalHits >= 5 /\ now < hits["auth"]["10.0.0.2"].resetTime

\* a registration was answered 409 and stayed counted
C35_WitnessDuplicate ==
    \E s \in Slots :
        /\ Done(reqs[s]) /\ reqs[s].route = "POST /auth/register" /\ reqs[s].res.status = 409
        /\ hits["auth"]["10.0.0.2"].totalHits = reqs[s].rlSeen["auth"].after.totalHits

\* a successful login between the failures did not empty the counter: one
\* more failure and the next login was answered 429
C35_WitnessMixed ==
    \E s \in Slots :
        LET r == reqs[s]
        IN  /\ Started(r) /\ r.route = "POST /auth/login"
            /\ r.rlSeen["auth"] # NoValue
            /\ r.log0.fails = 1 /\ FailuresInWindow(r)
            /\ RejectedBy(r, "auth")

----------------------------------------------------------------------------
(* Mutating user requests that fail, with a listing in the cache *)

MaxArrivalsFrame == 2

AdminHeader == <<"Bearer", SeedToken(1)>>

\* creations: of a new user, with a taken email, without a body, without a
\* token, by a plain user, and from an address whose window of the
\* user-modification tier is full; updates: of a missing user, to a taken
\* email, of a name; a deletion
FrameRequests ==
    {[route |-> "POST /users", id |-> <<>>, ip |-> "10.0.0.2", authHeader |-> AdminHeader,
      body |-> [name |-> "Cy", email |-> "c@x.io", password |-> ""]],
     [route |-> "POST /users", id |-> <<>>, ip |-> "10.0.0.2", authHeader |-> AdminHeader,
      body |-> [name |-> "Bo", email |-> "b@x.io", password |-> ""]],
     [route |-> "POST /users", id |-> <<>>, ip |-> "10.0.0.2", authHeader |-> AdminHeader, body |-> EmptyBody],
     [route |-> "POST /users", id |-> <<>>, ip |-> "10.0.0.2", authHeader |-> <<>>,
      body |-> [name |-> "Cy", email |-> "c@x.io", password |-> ""]],
     [route |-> "POST /users", id |-> <<>>, ip |-> "10.0.0.2", authHeader |-> <<"Bearer", SeedToken(2)>>,
      body |-> [name |-> "Cy", email |-> "c@x.io", password |-> ""]],
     [route |-> "POST /users", id |-> <<>>, ip |-> "10.0.0.3", authHeader |-> AdminHeader,
      body |-> [name |-> "Cy", email |-> "c@x.io", password |-> ""]],
     [route |-> "PUT /users/:id", id |-> <<"3">>, ip |-> "10.0.0.2", authHeader |-> AdminHeader,
      body |-> [name |-> "Al", email |-> "", password |-> ""]],
     [route |-> "PUT /users/:id", id |-> <<"2">>, ip |-> "10.0.0.2", authHeader |-> AdminHeader,
      body |-> [name |-> "", email |-> "a@x.io", password |-> ""]],
     [route |-> "PUT /users/:id", id |-> <<"2">>, ip |-> "10.0.0.2", authHeader |-> AdminHeader,
      body |-> [name |-> "Al", email |-> "", password |-> ""]],
     [route |-> "DELETE /users/:id", id |-> <<"2">>, ip |-> "10.0.0.2", authHeader |-> AdminHeader,
      body |-> EmptyBody]}

ArriveFrame ==
    \E s \in Slots, q \in FrameRequests :
        Arrive(s, q.route, q.id, q.ip, q.authHeader, NoValue, q.body, MaxArrivalsFrame, MaxInflight, TRUE)

\* the deployment of SeededInit after the administrator has listed the users
\* from the second address, and after as many modifications from the third
\* address as the user-modification tier lets through in a window
InitFrame ==
    /\ now = 0
    /\ users = SeedUsers
    /\ nextId = 3
    /\ cache = CacheSet(<<>>, BusyKey, UsersBody, 120, 0)
    /\ hits = [SeedHits EXCEPT !["general"]["10.0.0.2"] = [totalHits |-> 1, resetTime |-> RATE_LIMIT_WINDOW_MS],
                               !["speed"]["10.0.0.2"] = [totalHits |-> 1, resetTime |-> speedLimiter.windowMs],
                               !["userModification"]["10.0.0.3"] =
                                   [totalHits |-> userModificationLimiter.max,
                                    resetTime |-> userModificationLimiter.windowMs]]
    /\ reqs = [s \in Slots |-> Idle]
    /\ issued = {SeedToken(1), SeedToken(2)}
    /\ stored = {[key |-> BusyKey, data |-> UsersBody, at |-> 0, evicted |-> FALSE]}
    /\ dbVer = 3
    /\ doneVer = 0
    /\ arrivals = 0
    /\ gate = GateIdle
    /\ probe = ProbeIdle
    /\ rl = RlIdle

NextFrame ==
    \/ ArriveFrame
    \/ \E s \in Slots : AuthLookup(s)
    \/ \E s \in Slots : CreateCheck(s)
    \/ \E s \in Slots : CreateWrite(s)
    \/ \E s \in Slots : CreateSend(s)
    \/ \E s \in Slots : UpdateCheck(s)
    \/ \E s \in Slots : UpdateFind(s)
    \/ \E s \in Slots : UpdateWrite(s)
    \/ \E s \in Slots : UpdateSend(s)
    \/ \E s \in Slots : DeleteFind(s)
    \/ \E s \in Slots : DeleteWrite(s)
    \/ \E s \in Slots : DeleteSend(s)

SpecFrame == InitFrame /\ [][NextFrame]_vars

\* the request was answered with an error
Failed(r) == Done(r) /\ r.res.status >= 400

\* a failed request has neither read, written nor emptied the cache; a
\* request that emptied it had its write done and was answered 200 or 201
FailedLeftCache ==
    \A s \in Slots :
        LET r == reqs[s]
        IN  Started(r) =>
                /\ ~r.cacheRead /\ ~r.cacheWrite
                /\ Failed(r) => ~r.invalidated
                /\ r.invalidated => /\ Done(r) /\ r.res.status \in {200, 201}
                                    /\ r.tmp # NoValue /\ r.tmp.ver <= dbVer

\* the cache changes only in the step that answers a request whose write was
\* done, and is empty after it
InvalidatedAfterWrite ==
    cache' # cache =>
        /\ cache' = <<>>
        /\ \E s \in Slots :
                /\ reqs[s].pc \in {"createUser:send", "updateUser:send", "deleteUser:send"}
                /\ Done(reqs'[s]) /\ reqs'[s].res.status \in {200, 201}

\* C36: a mutating user request that is answered with an error (400, 401,
\* 403, 404, 409, 429, or 500 when the write fails) leaves the cache as it
\* was; the cache is emptied only by a request whose write has succeeded,
\* when it answers.
C36_FailedMutationKeepsCache == []FailedLeftCache /\ [][InvalidatedAfterWrite]_vars

\* a creation with a taken email was answered 409 and the listing is still cached
C36_Witness ==
    \E s \in Slots :
        /\ Failed(reqs[s]) /\ reqs[s].route = "POST /users" /\ reqs[s].res.status = 409
        /\ Len(cache) = 1 /\ cache[1].key = BusyKey

\* an update of a missing user was answered 404 with the listing still cached
C36_WitnessNotFound ==
    \E s \in Slots :
        /\ Failed(reqs[s]) /\ reqs[s].route = "PUT /users/:id" /\ reqs[s].res.status = 404
        /\ Len(cache) = 1

\* a creation was refused by the user-modification tier with the listing still cached
C36_WitnessRateLimited ==
    \E s \in Slots :
        /\ Failed(reqs[s]) /\ reqs[s].rejectedBy = "userModification" /\ reqs[s].res.status = 429
        /\ Len(cache) = 1

\* a deletion whose row was deleted meanwhile was answered 500 while the
\* other deletion had not yet emptied the cache
C36_WitnessWriteFailed ==
    \E s \in Slots :
        /\ Failed(reqs[s]) /\ reqs[s].route = "DELETE /users/:id" /\ reqs[s].res.status = 500
        /\ Len(cache) = 1

\* a successful update emptied the cache
C36_WitnessInvalidated ==
    \E s \in Slots :
        /\ Done(reqs[s]) /\ reqs[s].route = "PUT /users/:id" /\ reqs[s].invalidated
        /\ cache = <<>>

----------------------------------------------------------------------------
(* SimpleCache.set of a key that is present *)

\* the entries of c under keys other than k
OtherEntries(c, k) == {c[i] : i \in {j \in 1..Len(c) : c[j].key # k}}

\* the last call was a set of a key that the cache held
SetOfPresent == probe.op = "set" /\ HasKey(probe.before, probe.key)

\* the entry of the key set last holds the payload, the time and the ttl of the call
EntryReplaced ==
    /\ HasKey(cache, probe.key)
    /\ EntryOf(cache, probe.key) =
            [key |-> probe.key, data |-> [n |-> probe.calls], timestamp |-> probe.at, ttl |-> 30 * 1000]

\* a get of the key set last, at the time of the set, returns the payload set
SetThenGet == CacheGet(cache, probe.key, probe.at).data = [n |-> probe.calls]

\* C37 as stated: a set of a key that is present replaces the payload,
\* storedAt and ttl of that key, evicts no other entry and leaves the size
\* as it was, in every cache including a full one; and after any set with
\* a positive ttl an immediate get of the key returns the payload set.
C37_SetOfPresentKeepsOthers ==
    /\ SetOfPresent =>
            /\ EntryReplaced
            /\ OtherEntries(cache, probe.key) = OtherEntries(probe.before, probe.key)
            /\ Len(cache) = Len(probe.before)
    /\ probe.op = "set" => SetThenGet

\* what holds: the entry is replaced and an immediate get returns the
\* payload; below capacity nothing else changes; at capacity the entry
\* inserted earliest is deleted first, so that another key's entry is lost
\* and the size goes down by one unless the key set is itself the earliest
C37_SetOfPresentAtCapacityEvicts ==
    /\ probe.op = "set" => EntryReplaced /\ SetThenGet
    /\ SetOfPresent =>
            IF Len(probe.before) < maxSize
            THEN /\ OtherEntries(cache, probe.key) = OtherEntries(probe.before, probe.key)
                 /\ Len(cache) = Len(probe.before)
            ELSE LET oldest == Earliest(probe.before, probe.born0)
                 IN  IF oldest = probe.key
                     THEN /\ OtherEntries(cache, probe.key) = OtherEntries(probe.before, probe.key)
                          /\ Len(cache) = Len(probe.before)
                     ELSE /\ OtherEntries(cache, probe.key) =
                                OtherEntries(probe.before, probe.key) \ {EntryOf(probe.before, oldest)}
                          /\ Len(cache) = Len(probe.before) - 1

\* a set of a present key below capacity replaced its entry in place
C37_WitnessBelowCapacity ==
    /\ SetOfPresent /\ Len(probe.before) < maxSize /\ Len(probe.before) >= 1
    /\ probe.at > EntryOf(probe.before, probe.key).timestamp
    /\ Len(cache) = Len(probe.before)

\* a set of a present key in a full cache evicted the entry of another key
C37_WitnessEvicted ==
    /\ SetOfPresent /\ Len(probe.before) >= maxSize
    /\ OtherEntries(cache, probe.key) # OtherEntries(probe.before, probe.key)
    /\ Len(cache) < Len(probe.before)

----------------------------------------------------------------------------
(* Emails under concurrent creations, registrations and updates *)

MaxArrivalsEmail == 2

\* the administrator creates a user with the free email, a stranger
\* registers with it, and the administrator sets the email of the first or
\* the second user to its own, to the other's, or to the free one
EmailRequests ==
    {[route |-> "POST /users", id |-> <<>>, authHeader |-> <<"Bearer", SeedToken(1)>>,
      body |-> [name |-> "Cy", email |-> "c@x.io", password |-> ""]],
     [route |-> "POST /auth/register", id |-> <<>>, authHeader |-> <<>>,
      body |-> [name |-> "Cy", email |-> "c@x.io", password |-> "pw3"]]}
    \cup {[route |-> "PUT /users/:id", id |-> <<i>>, authHeader |-> <<"Bearer", SeedToken(1)>>,
           body |-> [name |-> "", email |-> e, password |-> ""]] :
          i \in {"1", "2"}, e \in {"a@x.io", "b@x.io", "c@x.io"}}

ArriveEmail ==
    \E s \in Slots, q \in EmailRequests :
        Arrive(s, q.route, q.id, "10.0.0.2", q.authHeader, NoValue, q.body, MaxArrivalsEmail, MaxInflight, TRUE)

InitEmail == SeededInit

NextEmail ==
    \/ ArriveEmail
    \/ \E s \in Slots : AuthLookup(s)
    \/ \E s \in Slots : CreateCheck(s)
    \/ \E s \in Slots : CreateWrite(s)
    \/ \E s \in Slots : CreateSend(s)
    \/ \E s \in Slots : RegisterFind(s)
    \/ \E s \in Slots : RegisterCreate(s)
    \/ \E s \in Slots : RegisterSend(s)
    \/ \E s \in Slots : UpdateCheck(s)
    \/ \E s \in Slots : UpdateFind(s)
    \/ \E s \in Slots : UpdateWrite(s)
    \/ \E s \in Slots : UpdateSend(s)

SpecEmail == InitEmail /\ [][NextEmail]_vars

\* no two users have one email
EmailsUnique ==
    \A i, j \in DOMAIN users :
        users[i] # NoValue /\ users[j] # NoValue /\ users[i].email = users[j].email => i = j

\* the email is that of a user other than id
HeldByOther(e, id) == \E i \in DOMAIN users : i # id /\ users[i] # NoValue /\ users[i].email = e

\* the request was answered 409 with the message of a taken email
Refused409(r) ==
    /\ Done(r) /\ r.res.status = 409
    /\ r.res.body.message = "User with this email already exists"

\* the check of an update: refused when another user has the email, passed
\* on when the user itself or nobody has it
UpdateChecked ==
    \A s \in Slots :
        reqs[s].pc = "updateUser:check" /\ reqs'[s].pc # "updateUser:check" =>
            IF HeldByOther(reqs[s].body.email, parseInt(reqs[s].idParam))
            THEN Refused409(reqs'[s]) /\ users' = users
            ELSE reqs'[s].pc = "updateUser:find"

\* the write of an update: refused when another user has the email by then,
\* done otherwise, also when the email is the user's own
UpdateWritten ==
    \A s \in Slots :
        reqs[s].pc = "updateUser:write" /\ reqs'[s].pc # "updateUser:write" =>
            LET id == parseInt(reqs[s].idParam)
            IN  IF HeldByOther(reqs[s].body.email, id)
                THEN Refused409(reqs'[s]) /\ users' = users
                ELSE /\ reqs'[s].pc = "updateUser:send"
                     /\ users'[id].email = reqs[s].body.email
                     /\ \A i \in DOMAIN users : i # id => users'[i] = users[i]

\* an update that was passed on is answered 200
UpdateAnswered ==
    \A s \in Slots :
        LET r == reqs[s]
        IN  /\ Started(r) /\ r.route = "PUT /users/:id" /\ Done(r) => r.res.status \in {200, 409}
            /\ reqs[s].pc = "updateUser:send" /\ reqs'[s].pc # "updateUser:send" =>
                    Done(reqs'[s]) /\ reqs'[s].res.status = 200

\* C38: under every interleaving of creations, registrations and updates no
\* two users have the same email; an update of a user to the email it has
\* is accepted, and an update to the email of another user is answered 409,
\* whether the other user has it at the check or only at the write.
C38_EmailsStayUnique ==
    []EmailsUnique /\ [][UpdateChecked /\ UpdateWritten /\ UpdateAnswered]_vars

\* an update of the second user to its own email was answered 200
C38_Witness ==
    \E s \in Slots :
        /\ Done(reqs[s]) /\ reqs[s].route = "PUT /users/:id" /\ reqs[s].idParam = <<"2">>
        /\ reqs[s].body.email = "b@x.io" /\ users[2].email = "b@x.io"
        /\ reqs[s].res.status = 200

\* an update of the second user to the email of the first was answered 409
C38_WitnessOthers ==
    \E s \in Slots :
        /\ Refused409(reqs[s]) /\ reqs[s].route = "PUT /users/:id" /\ reqs[s].idParam = <<"2">>
        /\ reqs[s].body.email = "a@x.io" /\ users[1].email = "a@x.io"

\* an update that passed the check is about to write an email that a
\* creation has taken meanwhile
C38_WitnessTakenMeanwhile ==
    \E s \in Slots :
        /\ reqs[s].pc = "updateUser:write"
        /\ users[3] # NoValue /\ users[3].email = reqs[s].body.email

\* the users have exchanged what was free: the second has the new email and
\* the first has the email the second had
C38_WitnessMoved ==
    /\ users[2].email = "c@x.io" /\ users[1].email = "b@x.io"
    /\ \E s \in Slots : Done(reqs[s]) /\ reqs[s].res.status = 200

====
